---- MODULE Spec2Model ----
(***************************************************************************)
(* A model of jsclaw: the per-group work queue (src/src/group-queue.js),   *)
(* the filesystem mailbox primitives (writeIpcFile / drainIpcDir /          *)
(* drainIpcInput), the host-side mailbox watcher (startIpcWatcher), the     *)
(* container runner (parseContainerOutput / runContainerAgent), the mount   *)
(* validator (validateAdditionalMounts) and the life of one container      *)
(* session under the queue (registerProcess / sendMessage / shutdown).     *)
(***************************************************************************)
EXTENDS Integers, Sequences, FiniteSets, TLC

\* ------------------------------------------------------------------------
\* Program constants and model bounds
\* ------------------------------------------------------------------------
MAX_RETRIES == 5
BASE_RETRY_DELAY == 5000

\* Number of work items enqueued in one behaviour.
MaxItems == 2
\* Largest value of config.maxConcurrentContainers tried.
MaxCap == 2

\* The group jids callers enqueue for.
Jids == {"g1", "g2"}
\* The error a processing function rejects with on attempt k: each rejection
\* throws an error of its own.
AttemptError(k) == <<"Error of attempt", k>>
\* The error thrown by _processItem itself when nothing can process the item.
NoFnError == <<"No processing function configured", 0>>
\* A rejection value without properties: undefined or null.
NullishRejection == <<"undefined or null", 0>>

VARIABLES
  maxConcurrentContainers,  \* this._config.maxConcurrentContainers
  processMessagesFn,        \* this._processMessagesFn is set (TRUE) or null (FALSE)
  groups,                   \* this._groups, in Map insertion order
  activeCount,              \* this._activeCount
  items,                    \* every QueueItem created so far, by identity
  dispatched                \* history: item identities in the order _drain shifted them

qvars == <<maxConcurrentContainers, processMessagesFn, groups, activeCount, items, dispatched>>

VARIABLES
  dirExists,   \* the mailbox directory exists
  files,       \* the directory: file name -> content written so far
  writers,     \* each writeIpcFile caller's position
  drainer,     \* the drain in progress: its position, listing, index and results
  written,     \* history: file name -> data, one entry per writeIpcFile call
  readLog,     \* history: <<name, raw>> of every readFileSync a drain made
  unlinkLog,   \* history: every name a drain passed to unlinkSync
  returned     \* history: <<name, data>> of every entry a drain returned

fsvars == <<dirExists, files, writers, drainer, written, readLog, unlinkLog, returned>>

VARIABLES
  pollHandle,  \* the module-level interval handle: "null" or "set"
  mail,        \* <dataDir>/ipc/<folder>/{messages,tasks}: file name -> published data
  errorsDir,   \* the files moveToErrors wrote: <<folder, box, filename, data>>
  ticks,       \* every poll() invocation: registered groups it fetched, and its position
  sendCalls,   \* history: the calls of deps.sendMessage
  taskCalls,   \* history: the calls of deps.onTask
  published,   \* history: the number of entries containers have published
  unlinkFailed \* history: the files a drain returned and failed to delete

wvars == <<pollHandle, mail, errorsDir, ticks, sendCalls, taskCalls, published,
          unlinkFailed>>

VARIABLES
  spawned,        \* spawn(): "none" before the call, then "ok" or "failed"
  callbacks,      \* which of onProcess / onOutput the caller passed
  onProcessCalls, \* history: the number of onProcess(proc, containerName) calls
  child,          \* the container process: "none", "running" or "exited", and its exit code
  pipe,           \* text the child wrote to stdout that no 'data' event delivered yet
  wrote,          \* history: the outputs the child passed to writeOutput, in order
  stdoutBuffer,   \* let stdoutBuffer
  parsed,         \* history: the outputs parseContainerOutput returned, in order
  handlers,       \* the 'data' handler invocations suspended at await onOutput(output)
  outCalls,       \* history: the onOutput invocations, in order, and whether each settled
  lastOutput,     \* let lastOutput
  timedOut,       \* let timedOut
  timeoutHandle,  \* the idle timer: "armed" or "none" (cleared or fired)
  killer,         \* killContainer: the stop commands issued, those still running, the kills
  promise,        \* the promise runContainerAgent returned, and what happened at the events
  fired           \* history: the states the promise was in when the idle timer fired

rvars == <<spawned, callbacks, onProcessCalls, child, pipe, wrote, stdoutBuffer, parsed,
           handlers, outCalls, lastOutput, timedOut, timeoutHandle, killer, promise, fired>>

VARIABLES
  mountCall,      \* the validateAdditionalMounts call made: its arguments and result
  spawnArgs       \* the arguments runContainerAgent built for spawn, and what it built them from

mvars == <<mountCall, spawnArgs>>

VARIABLES
  containers,     \* the containers spawned: the item that spawned each, and its agent runner
  inbox,          \* <dataDir>/ipc/<folder>/input: the entries, in publication order
  sends,          \* history: the sendMessage calls and what they returned
  closes,         \* history: the closeContainer calls made on the queue and what they found
  shut            \* shutdown(): its position, what its loops did, the handles they found

svars == <<containers, inbox, sends, closes, shut>>

VARIABLES
  watchers        \* the startIpcWatcher calls of a process that makes several: the calls
                  \* made, the interval timers alive, the timer pollHandle holds, the
                  \* calls whose stop() was called, and which call's timer ran each poll

pvars == <<watchers>>

\* The variables of the components added after the queue, the files and the watcher.
xvars == <<rvars, mvars, svars, pvars>>

vars == <<qvars, fsvars, wvars, xvars>>

\* ------------------------------------------------------------------------
\* GroupQueue
\* ------------------------------------------------------------------------
RECURSIVE Pow2(_)
Pow2(n) == IF n = 0 THEN 1 ELSE 2 * Pow2(n - 1)

Min(S) == CHOOSE x \in S : \A y \in S : x <= y

\* The queue's mutable state as one value, threaded through the helpers below.
QState == [groups |-> groups, activeCount |-> activeCount,
           items |-> items, dispatched |-> dispatched]

NewGroup(jid) == [jid |-> jid, process |-> "null", containerName |-> "null",
                  groupFolder |-> "null", processing |-> FALSE, queue |-> <<>>]

HasGroup(gs, jid) == \E k \in 1..Len(gs) : gs[k].jid = jid

GroupIndex(gs, jid) == CHOOSE k \in 1..Len(gs) : gs[k].jid = jid

\* _getGroup: create the group's state on first use; Map keeps insertion order.
getGroup(gs, jid) == IF HasGroup(gs, jid) THEN gs ELSE Append(gs, NewGroup(jid))

\* A QueueItem {resolve, reject, fn, taskId} and the position of its _processItem
\* invocation: status, and attempt (the invocation's argument, also the one it
\* handed to the retry timer). calls, delays, value, resolveCalls and rejectCalls
\* record the invocations made, the timers set and the calls of the sink;
\* returned is what the processing function fulfilled with. An item is "stuck"
\* when its _processItem invocation ended in its catch block with neither a
\* timer set nor the sink called.
NewItem(jid, fn) == [jid |-> jid, fn |-> fn, status |-> "queued", attempt |-> 0,
                     value |-> <<"none", 0>>, returned |-> <<"none", 0>>,
                     calls |-> 0, delays |-> <<>>,
                     resolveCalls |-> 0, rejectCalls |-> 0]

\* delay = BASE_RETRY_DELAY * Math.pow(2, attempt)
RetryDelay(attempt) == BASE_RETRY_DELAY * Pow2(attempt)

\* catch: attempt < MAX_RETRIES schedules a retry, otherwise the item is rejected.
RetriesLeft(attempt) == attempt < MAX_RETRIES

\* finally: attempt >= MAX_RETRIES || !item.fn
ReleasesSlot(fn, attempt) == attempt >= MAX_RETRIES \/ ~fn

AtCapacityOffByOne(count) == count > maxConcurrentContainers

\* _drain's guard: this._activeCount >= this._config.maxConcurrentContainers
AtCapacity(count) == count >= maxConcurrentContainers

\* _drain's filter: group.processing || group.queue.length === 0 -> continue
Runnable(g) == ~g.processing /\ g.queue # <<>>

\* try-branch after the await: item.resolve(result)
OnSuccess(s, i, result) ==
  [s EXCEPT !.items[i].status = "resolved", !.items[i].value = <<"value", result>>,
            !.items[i].resolveCalls = @ + 1]

\* catch-branch: setTimeout(retry, delay) and return, or item.reject(err). Both
\* paths read err.message for the log first: for undefined or null that read
\* throws, so no timer is set and the sink is not called.
OnFailure(s, i, err) ==
  LET a == s.items[i].attempt IN
  IF err = NullishRejection
  THEN [s EXCEPT !.items[i].status = "stuck"]
  ELSE IF RetriesLeft(a)
  THEN [s EXCEPT !.items[i].status = "backoff",
                 !.items[i].delays = Append(@, RetryDelay(a))]
  ELSE [s EXCEPT !.items[i].status = "rejected", !.items[i].value = err,
                 !.items[i].rejectCalls = @ + 1]

\* finally-branch, without its trailing _drain()
ReleaseSlot(s, i) ==
  LET k == GroupIndex(s.groups, s.items[i].jid) IN
  [s EXCEPT !.groups[k].processing = FALSE, !.groups[k].process = "null",
            !.groups[k].containerName = "null", !.activeCount = @ - 1]

settleWithoutDrain(s, i, ok, v) ==
  LET s1 == IF ok THEN OnSuccess(s, i, v) ELSE OnFailure(s, i, v) IN
  IF ReleasesSlot(s.items[i].fn, s.items[i].attempt)
  THEN ReleaseSlot(s1, i)
  ELSE s1

RECURSIVE drain(_), processItem(_, _, _), settle(_, _, _, _)

\* _drain: dispatch the first runnable group's head item, if below the cap.
drain(s) ==
  IF AtCapacity(s.activeCount) THEN s
  ELSE LET cands == {k \in 1..Len(s.groups) : Runnable(s.groups[k])} IN
       IF cands = {} THEN s
       ELSE LET k == Min(cands)
                i == Head(s.groups[k].queue)
                s1 == [s EXCEPT !.groups[k].processing = TRUE,
                                !.activeCount = @ + 1,
                                !.groups[k].queue = Tail(@),
                                !.dispatched = Append(@, i)]
            IN processItem(s1, i, 0)

\* _processItem up to its await: start item.fn or processMessagesFn, or throw.
processItem(s, i, attempt) ==
  LET s1 == [s EXCEPT !.items[i].attempt = attempt, !.items[i].calls = @ + 1] IN
  IF s.items[i].fn \/ processMessagesFn
  THEN [s1 EXCEPT !.items[i].status = "running"]
  ELSE settle(s1, i, FALSE, NoFnError)

\* _processItem after its await: try / catch / finally.
settle(s, i, ok, v) ==
  LET s1 == IF ok THEN OnSuccess(s, i, v) ELSE OnFailure(s, i, v) IN
  IF ReleasesSlot(s.items[i].fn, s.items[i].attempt)
  THEN drain(ReleaseSlot(s1, i))
  ELSE s1

Install(s) ==
  /\ groups' = s.groups
  /\ activeCount' = s.activeCount
  /\ items' = s.items
  /\ dispatched' = s.dispatched

\* setProcessMessagesFn(fn)
setProcessMessagesFn ==
  /\ ~processMessagesFn
  /\ processMessagesFn' = TRUE
  /\ UNCHANGED <<maxConcurrentContainers, groups, activeCount, items, dispatched, fsvars, wvars, xvars>>

\* group.queue.push(item)
QueuePush(q, i) == Append(q, i)

QueueUnshiftAtEnd(q, i) == Append(q, i)

\* group.queue.unshift(item)
QueueUnshift(q, i) == <<i>> \o q

\* The body of enqueueMessageCheck (fn absent) and of enqueueTask (fn given): a new
\* item, put at the tail or at the head of the group's queue, then this._drain().
Enqueued(jid, fn) ==
  LET i == Len(items) + 1
      gs == getGroup(groups, jid)
      k == GroupIndex(gs, jid)
      s == [QState EXCEPT !.items = Append(items, NewItem(jid, fn)),
                          !.groups = [gs EXCEPT ![k].queue = IF fn THEN QueueUnshift(@, i)
                                                             ELSE QueuePush(@, i)]]
  IN drain(s)

\* enqueueMessageCheck(groupJid): group.queue.push(item); this._drain()
enqueueMessageCheck(jid) ==
  /\ Len(items) < MaxItems
  /\ Install(Enqueued(jid, FALSE))
  /\ UNCHANGED <<maxConcurrentContainers, processMessagesFn, fsvars, wvars, xvars>>

\* enqueueTask(groupJid, taskId, fn): group.queue.unshift(item); this._drain()
enqueueTask(jid) ==
  /\ Len(items) < MaxItems
  /\ Install(Enqueued(jid, TRUE))
  /\ UNCHANGED <<maxConcurrentContainers, processMessagesFn, fsvars, wvars, xvars>>

\* The awaited processing function fulfils with a boolean.
FnSucceeds(i, result) ==
  /\ items[i].status = "running"
  /\ Install(settle([QState EXCEPT !.items[i].returned = <<"value", result>>],
                    i, TRUE, result))
  /\ UNCHANGED <<maxConcurrentContainers, processMessagesFn, fsvars, wvars, xvars>>

\* The awaited processing function rejects, with an Error or with undefined / null.
FnFails(i, nullish) ==
  /\ items[i].status = "running"
  /\ Install(settle(QState, i, FALSE, IF nullish THEN NullishRejection
                                      ELSE AttemptError(items[i].attempt)))
  /\ UNCHANGED <<maxConcurrentContainers, processMessagesFn, fsvars, wvars, xvars>>

\* The retry timer fires: this._processItem(group, item, attempt + 1)
RetryTimerFires(i) ==
  /\ items[i].status = "backoff"
  /\ Install(processItem(QState, i, items[i].attempt + 1))
  /\ UNCHANGED <<maxConcurrentContainers, processMessagesFn, fsvars, wvars, xvars>>


\* ------------------------------------------------------------------------
\* IPC files: writeIpcFile, readIpcFile, drainIpcDir, and the container's
\* writeIpcFile and drainIpcInput
\* ------------------------------------------------------------------------
\* Number of writeIpcFile calls in one behaviour.
MaxWrites == 2

Writers == {"host", "container"}
\* Data passed to writeIpcFile; NoText has no text field.
Data == {"hello", "NoText"}
Text(d) == IF d = "NoText" THEN "" ELSE d

\* File names as token sequences: a stamp n stands for `${Date.now()}-${uuid8}`.
\* filename = `${prefix}${Date.now()}-${randomUUID().slice(0, 8)}.json`
Stamps == <<"1001-aaaa", "1002-bbbb", "1003-cccc", "1004-dddd">>
FinalName(n) == <<Stamps[n], ".json">>
\* tmpPath = join(dir, `.${filename}.tmp`)
TmpName(n) == <<".">> \o FinalName(n) \o <<".tmp">>
CloseName == <<"_close">>

WritePathDirect(n) == FinalName(n)

\* The path writeFileSync is given: tmpPath
WritePath(n) == TmpName(n)

endsWith(name, suffix) == name[Len(name)] = suffix
startsWith(name, prefix) == name[1] = prefix

\* JSON.stringify(data), as the two chunks writeFileSync may write it in.
Chunks(d) == << <<"{", d>>, <<"}">> >>
Stringify(d) == Chunks(d)[1] \o Chunks(d)[2]

\* JSON.parse(raw): defined on complete documents only.
Parses(raw) == Len(raw) = 3 /\ raw[1] = "{" /\ raw[3] = "}"
Parse(raw) == raw[2]

\* String order on names, by code unit: "." < digits < "_".
Rank(tok) == IF tok = "." THEN 0
             ELSE IF tok \in {".json", ".tmp"} THEN 1
             ELSE IF tok = "0999-zzzz" THEN 5
             ELSE IF \E n \in 1..Len(Stamps) : Stamps[n] = tok
                  THEN 10 + (CHOOSE n \in 1..Len(Stamps) : Stamps[n] = tok)
             ELSE 1000
RECURSIVE NameLess(_, _)
NameLess(a, b) ==
  IF a = <<>> THEN b # <<>>
  ELSE IF b = <<>> THEN FALSE
  ELSE IF Rank(Head(a)) # Rank(Head(b)) THEN Rank(Head(a)) < Rank(Head(b))
  ELSE NameLess(Tail(a), Tail(b))

RECURSIVE SortNamesDescending(_)
SortNamesDescending(S) ==
  IF S = {} THEN <<>>
  ELSE LET m == CHOOSE x \in S : \A y \in S \ {x} : NameLess(y, x)
       IN <<m>> \o SortNamesDescending(S \ {m})

\* entries.sort()
RECURSIVE SortNames(_)
SortNames(S) ==
  IF S = {} THEN <<>>
  ELSE LET m == CHOOSE x \in S : \A y \in S \ {x} : NameLess(x, y)
       IN <<m>> \o SortNames(S \ {m})

\* The drains' filter: name.endsWith('.json') and not name.startsWith('.')
Accepts(name) == endsWith(name, ".json") /\ ~startsWith(name, ".")

Remove(f, name) == [x \in DOMAIN f \ {name} |-> f[x]]
Put(f, name, v) == [x \in DOMAIN f \cup {name} |-> IF x = name THEN v ELSE f[x]]

IdleWriter == [pc |-> "idle", stamp |-> 0, data |-> "none", chunk |-> 0]
IdleDrainer == [pc |-> "idle", kind |-> "none", entries |-> <<>>, idx |-> 0,
                results |-> <<>>, raw |-> <<>>]

fsFrame == UNCHANGED <<qvars, wvars, xvars>>

\* writeIpcFile: mkdirSync(dir, {recursive}); pick the name; writeFileSync opens tmpPath.
WriteOpen(w, d) ==
  /\ writers[w].pc = "idle"
  /\ Cardinality(DOMAIN written) < MaxWrites
  /\ \E n \in 1..MaxWrites :
       /\ FinalName(n) \notin DOMAIN written
       /\ writers' = [writers EXCEPT ![w] = [pc |-> "writing", stamp |-> n, data |-> d, chunk |-> 0]]
       /\ files' = Put(files, WritePath(n), <<>>)
       /\ written' = Put(written, FinalName(n), d)
  /\ dirExists' = TRUE
  /\ UNCHANGED <<drainer, readLog, unlinkLog, returned>>
  /\ fsFrame

\* writeFileSync writes the next chunk of JSON.stringify(data) to tmpPath.
WriteChunk(w) ==
  /\ writers[w].pc = "writing"
  /\ LET c == writers[w].chunk + 1
         path == WritePath(writers[w].stamp)
     IN /\ files' = [files EXCEPT ![path] = @ \o Chunks(writers[w].data)[c]]
        /\ writers' = [writers EXCEPT ![w].chunk = c,
                                      ![w].pc = IF c = Len(Chunks(writers[w].data))
                                                THEN "rename" ELSE "writing"]
  /\ UNCHANGED <<dirExists, drainer, written, readLog, unlinkLog, returned>>
  /\ fsFrame

\* renameSync(tmpPath, finalPath): the publication point.
WriteRename(w) ==
  /\ writers[w].pc = "rename"
  /\ LET src == WritePath(writers[w].stamp)
         dst == FinalName(writers[w].stamp)
     IN files' = Put(Remove(files, src), dst, files[src])
  /\ writers' = [writers EXCEPT ![w] = IdleWriter]
  /\ UNCHANGED <<dirExists, drainer, written, readLog, unlinkLog, returned>>
  /\ fsFrame

\* writeCloseSentinel: mkdirSync; writeFileSync(join(dir, '_close'), '')
writeCloseSentinel ==
  /\ CloseName \notin DOMAIN files
  /\ dirExists' = TRUE
  /\ files' = Put(files, CloseName, <<>>)
  /\ UNCHANGED <<writers, drainer, written, readLog, unlinkLog, returned>>
  /\ fsFrame

\* drainIpcDir / drainIpcInput: readdirSync(dir), sorted; a missing dir yields [].
DrainList(kind) ==
  /\ drainer.pc = "idle"
  /\ drainer' = IF dirExists
                THEN [IdleDrainer EXCEPT !.pc = "loop", !.kind = kind,
                                         !.entries = SortNames(DOMAIN files), !.idx = 1]
                ELSE IdleDrainer
  /\ UNCHANGED <<dirExists, files, writers, written, readLog, unlinkLog, returned>>
  /\ fsFrame

CurrentName == drainer.entries[drainer.idx]

\* One turn of the loop on a name the filter rejects: continue.
DrainSkip ==
  /\ drainer.pc = "loop" /\ drainer.idx <= Len(drainer.entries)
  /\ ~Accepts(CurrentName)
  /\ drainer' = [drainer EXCEPT !.idx = @ + 1]
  /\ UNCHANGED <<dirExists, files, writers, written, readLog, unlinkLog, returned>>
  /\ fsFrame

\* One turn on an accepted name: readFileSync and JSON.parse. A missing file or a
\* parse error skips the entry and leaves the file; otherwise the entry is pushed
\* (drainIpcInput pushes data.text, and only when it is non-empty).
DrainRead ==
  /\ drainer.pc = "loop" /\ drainer.idx <= Len(drainer.entries)
  /\ Accepts(CurrentName)
  /\ IF CurrentName \in DOMAIN files
     THEN LET raw == files[CurrentName] IN
          /\ readLog' = readLog \cup {<<CurrentName, raw>>}
          /\ IF Parses(raw)
             THEN drainer' =
                    [drainer EXCEPT !.pc = "unlink", !.raw = raw,
                       !.results = IF drainer.kind = "drainIpcDir"
                                   THEN Append(@, [data |-> Parse(raw), filename |-> CurrentName])
                                   ELSE IF Text(Parse(raw)) # ""
                                        THEN Append(@, [data |-> Parse(raw), filename |-> CurrentName])
                                        ELSE @]
             ELSE drainer' = [drainer EXCEPT !.idx = @ + 1]
     ELSE /\ drainer' = [drainer EXCEPT !.idx = @ + 1]
          /\ UNCHANGED readLog
  /\ UNCHANGED <<dirExists, files, writers, written, unlinkLog, returned>>
  /\ fsFrame

DrainUnlinkDropsOnFailure(fails) ==
  /\ drainer.pc = "unlink"
  /\ unlinkLog' = unlinkLog \cup {CurrentName}
  /\ files' = IF fails \/ CurrentName \notin DOMAIN files THEN files
              ELSE Remove(files, CurrentName)
  /\ drainer' = [drainer EXCEPT !.pc = "loop", !.idx = @ + 1, !.raw = <<>>,
                                !.results = IF fails THEN SubSeq(@, 1, Len(@) - 1) ELSE @]
  /\ UNCHANGED <<dirExists, writers, written, readLog, returned>>
  /\ fsFrame

\* unlinkSync(filePath); its failure is swallowed (best-effort cleanup).
DrainUnlink(fails) ==
  /\ drainer.pc = "unlink"
  /\ unlinkLog' = unlinkLog \cup {CurrentName}
  /\ files' = IF fails \/ CurrentName \notin DOMAIN files THEN files
              ELSE Remove(files, CurrentName)
  /\ drainer' = [drainer EXCEPT !.pc = "loop", !.idx = @ + 1, !.raw = <<>>]
  /\ UNCHANGED <<dirExists, writers, written, readLog, returned>>
  /\ fsFrame

\* return results
DrainReturn ==
  /\ drainer.pc = "loop" /\ drainer.idx > Len(drainer.entries)
  /\ returned' = returned \cup {<<drainer.results[k].filename, drainer.results[k].data>> :
                                  k \in 1..Len(drainer.results)}
  /\ drainer' = IdleDrainer
  /\ UNCHANGED <<dirExists, files, writers, written, readLog, unlinkLog>>
  /\ fsFrame

\* A file that was not written with writeIpcFile: its name passes the drains'
\* filter and sorts before the names of writeIpcFile, its content is no JSON.
BadName == <<"0999-zzzz", ".json">>
BadContent == <<"{", "hello">>

BadFileAppears ==
  /\ BadName \notin DOMAIN files
  /\ dirExists' = TRUE
  /\ files' = Put(files, BadName, BadContent)
  /\ UNCHANGED <<writers, drainer, written, readLog, unlinkLog, returned>>
  /\ fsFrame

FsInit ==
  /\ dirExists = FALSE
  /\ files = <<>>
  /\ writers = [w \in Writers |-> IdleWriter]
  /\ drainer = IdleDrainer
  /\ written = <<>>
  /\ readLog = {}
  /\ unlinkLog = {}
  /\ returned = {}

FsNext ==
  \/ \E w \in Writers : \E d \in Data : WriteOpen(w, d)
  \/ \E w \in Writers : WriteChunk(w)
  \/ \E w \in Writers : WriteRename(w)
  \/ writeCloseSentinel
  \/ \E kind \in {"drainIpcDir", "drainIpcInput"} : DrainList(kind)
  \/ DrainSkip
  \/ DrainRead
  \/ \E fails \in BOOLEAN : DrainUnlink(fails)
  \/ DrainReturn

\* drainIpcDir on a directory that also holds a file it cannot parse.
FsDamagedNext ==
  \/ \E w \in Writers : \E d \in Data : WriteOpen(w, d)
  \/ \E w \in Writers : WriteChunk(w)
  \/ \E w \in Writers : WriteRename(w)
  \/ BadFileAppears
  \/ DrainList("drainIpcDir")
  \/ DrainSkip
  \/ DrainRead
  \/ \E fails \in BOOLEAN : DrainUnlink(fails)
  \/ DrainReturn


\* ------------------------------------------------------------------------
\* Host-side IPC watcher: startIpcWatcher and its poll()
\* ------------------------------------------------------------------------
\* Number of mailbox entries containers publish in one behaviour.
MaxEntries == 2
\* Number of poll() invocations in one behaviour.
MaxTicks == 2

\* The directories under <dataDir>/ipc/, in readdirSync order.
Folders == <<"g1", "main">>
Boxes == {"messages", "tasks"}

\* What getRegisteredGroups() may return, in Object.values order.
G1 == [jid |-> "j1", folder |-> "g1"]
GMain == [jid |-> "j2", folder |-> "main"]
Registries == {<<>>, <<G1>>, <<GMain>>, <<GMain, G1>>}

\* Mailbox entries; "" stands for an absent (undefined) field.
Msg(camel, snake, text) == [targetJid |-> camel, target_jid |-> snake, text |-> text]
MessageEntries == {Msg("", "", "hi"), Msg("", "j2", "hi"), Msg("j1", "j2", "hi"),
                   Msg("j1", "", "")}
TaskEntries == [type : {"", "pause_task"}]

\* Object.values(groups).some(g => g.folder === groupFolder && g.folder === 'main')
IsMain(registered, groupFolder) ==
  \E k \in 1..Len(registered) :
    registered[k].folder = groupFolder /\ registered[k].folder = "main"

\* Object.values(groups).find(g => g.folder === groupFolder): its index, 0 if none
FindGroup(registered, groupFolder) ==
  LET hits == {k \in 1..Len(registered) : registered[k].folder = groupFolder}
  IN IF hits = {} THEN 0 ELSE Min(hits)

\* The jids of the groups registered with this folder.
OwnJids(registered, groupFolder) ==
  {registered[k].jid : k \in {n \in 1..Len(registered) : registered[n].folder = groupFolder}}

\* data.targetJid || data.target_jid
TargetJid(data) == IF data.targetJid # "" THEN data.targetJid ELSE data.target_jid

\* if (!isMain && targetJid) { group = find(...); if (group && targetJid !== group.jid) continue }
Authorized(registered, groupFolder, targetJid) ==
  LET g == FindGroup(registered, groupFolder)
  IN ~(~IsMain(registered, groupFolder) /\ targetJid # ""
       /\ g # 0 /\ targetJid # registered[g].jid)

\* resolvedJid = targetJid || find(...)?.jid
ResolvedJid(registered, groupFolder, targetJid) ==
  LET g == FindGroup(registered, groupFolder)
  IN IF targetJid # "" THEN targetJid
     ELSE IF g # 0 THEN registered[g].jid ELSE ""

\* The body of the messages loop for one entry, up to the call of deps.sendMessage.
MessageRoute(registered, groupFolder, data) ==
  IF data.text = "" THEN [kind |-> "missingText"]
  ELSE IF ~Authorized(registered, groupFolder, TargetJid(data)) THEN [kind |-> "blocked"]
  ELSE LET jid == ResolvedJid(registered, groupFolder, TargetJid(data))
       IN IF jid # "" THEN [kind |-> "send", jid |-> jid] ELSE [kind |-> "noJid"]

\* drainIpcDir(dir) on a mailbox of published files: the entries in filename
\* order, whether or not unlinkSync succeeds on their files.
DrainedList(box) ==
  LET names == SortNames(DOMAIN box)
  IN [k \in 1..Len(names) |-> [filename |-> names[k], data |-> box[names[k]]]]

\* Number of files whose deletion fails in one behaviour.
MaxUnlinkFailures == 1

EmptyBox == <<>>

WState == [mail |-> mail, errorsDir |-> errorsDir, ticks |-> ticks,
           sendCalls |-> sendCalls, taskCalls |-> taskCalls,
           unlinkFailed |-> unlinkFailed]

\* A poll() after readdirSync(ipcBase) and deps.getRegisteredGroups(): about to
\* drain the messages mailbox of the first directory. pc is "drain" before a call
\* of drainIpcDir, "run" inside a loop over the drained list, "await" at an await.
NewTick(registered) == [groups |-> registered, fi |-> 1, box |-> "messages",
                        list |-> <<>>, k |-> 1, pc |-> "drain"]

\* A poll() that has returned: its locals are gone.
DoneTick == [groups |-> <<>>, fi |-> 0, box |-> "messages",
             list |-> <<>>, k |-> 1, pc |-> "done"]

UnlinkedKeepsFiles(m, f, box, kept) == m

\* The mailbox after drainIpcDir(dir): the files whose unlink failed stay.
Unlinked(m, f, box, kept) ==
  [m EXCEPT ![f][box] = [name \in DOMAIN m[f][box] \cap kept |-> m[f][box][name]]]

\* poll() from its position in the list it drained up to its next await, or to the
\* end of the list: there it is about to drain the next mailbox (the tasks of the
\* same directory, the messages of the next one), or it returns.
RECURSIVE Advance(_, _)
Advance(ws, t) ==
  LET tk == ws.ticks[t] IN
  IF tk.k > Len(tk.list)
  THEN IF tk.box = "messages"
       THEN [ws EXCEPT !.ticks[t].box = "tasks", !.ticks[t].list = <<>>,
                       !.ticks[t].k = 1, !.ticks[t].pc = "drain"]
       ELSE IF tk.fi + 1 > Len(Folders)
       THEN [ws EXCEPT !.ticks[t] = DoneTick]
       ELSE [ws EXCEPT !.ticks[t].fi = tk.fi + 1, !.ticks[t].box = "messages",
                       !.ticks[t].list = <<>>, !.ticks[t].k = 1,
                       !.ticks[t].pc = "drain"]
  ELSE LET f == Folders[tk.fi]
           e == tk.list[tk.k]
       IN IF tk.box = "messages"
          THEN LET r == MessageRoute(tk.groups, f, e.data) IN
               IF r.kind = "send"
               THEN [ws EXCEPT !.ticks[t].pc = "await",
                               !.sendCalls = Append(@, [jid |-> r.jid, text |-> e.data.text,
                                                        folder |-> f,
                                                        own |-> OwnJids(tk.groups, f),
                                                        isMain |-> IsMain(tk.groups, f),
                                                        filename |-> e.filename,
                                                        tick |-> t,
                                                        outcome |-> "pending"])]
               ELSE Advance([ws EXCEPT !.ticks[t].k = @ + 1], t)
          ELSE IF e.data.type = ""
               THEN Advance([ws EXCEPT !.ticks[t].k = @ + 1], t)
               ELSE [ws EXCEPT !.ticks[t].pc = "await",
                               !.taskCalls = Append(@, [type |-> e.data.type, folder |-> f,
                                                        isMain |-> IsMain(tk.groups, f),
                                                        filename |-> e.filename,
                                                        tick |-> t,
                                                        outcome |-> "pending"])]

\* moveToErrors(sourceDir, filename, data, config): the entry is written under
\* errors/, or mkdirSync / writeFileSync throws and the catch drops it (best effort).
moveToErrors(ws, t, writes) ==
  LET tk == ws.ticks[t]
      e == tk.list[tk.k]
  IN IF writes
     THEN [ws EXCEPT !.errorsDir = @ \cup {<<Folders[tk.fi], tk.box, e.filename, e.data>>}]
     ELSE ws

InstallW(ws) ==
  /\ mail' = ws.mail
  /\ errorsDir' = ws.errorsDir
  /\ ticks' = ws.ticks
  /\ sendCalls' = ws.sendCalls
  /\ taskCalls' = ws.taskCalls
  /\ unlinkFailed' = ws.unlinkFailed

wFrame == UNCHANGED <<qvars, fsvars, xvars>>

\* The host's thread is free: no poll() is between two awaits. A poll() runs
\* without a break from one await to the next, so no timer, no callback and no
\* caller of stop() gets a turn while a tick is at a drain.
HostIdle == \A t \in 1..Len(ticks) : ticks[t].pc # "drain"

\* A new poll(): readdirSync(ipcBase), deps.getRegisteredGroups(); the loop over
\* groupDirs is at its first drainIpcDir.
StartPoll(registered) ==
  /\ ticks' = Append(ticks, IF Folders = <<>> THEN DoneTick ELSE NewTick(registered))
  /\ UNCHANGED <<mail, errorsDir, sendCalls, taskCalls, unlinkFailed>>

\* startIpcWatcher: pollHandle = setInterval(poll, ...); poll()
startIpcWatcher(registered) ==
  /\ pollHandle = "null" /\ ticks = <<>>
  /\ pollHandle' = "set"
  /\ StartPoll(registered)
  /\ UNCHANGED <<published, unlinkFailed>>
  /\ wFrame

\* The interval fires: poll()
IntervalFires(registered) ==
  /\ pollHandle = "set"
  /\ HostIdle
  /\ Len(ticks) < MaxTicks
  /\ StartPoll(registered)
  /\ UNCHANGED <<pollHandle, published>>
  /\ wFrame

\* One drainIpcDir(messagesDir) or drainIpcDir(tasksDir) of a poll(), and the loop
\* over what it returned, up to the next await or to the end of the list. The
\* drain reads the mailbox as it is at this moment: containers publish between
\* the drains of one poll(). unlinkSync fails for the files in kept: they are
\* returned and dispatched all the same, and stay in the mailbox.
PollDrains(t, kept) ==
  /\ ticks[t].pc = "drain"
  /\ LET tk == ticks[t]
         f == Folders[tk.fi]
         failed == unlinkFailed \cup {<<f, tk.box, name>> : name \in kept}
     IN /\ kept \subseteq DOMAIN mail[f][tk.box]
        /\ Cardinality(failed) <= MaxUnlinkFailures
        /\ InstallW(Advance([WState EXCEPT
                               !.ticks[t].list = DrainedList(mail[f][tk.box]),
                               !.ticks[t].k = 1,
                               !.ticks[t].pc = "run",
                               !.mail = Unlinked(@, f, tk.box, kept),
                               !.unlinkFailed = failed], t))
  /\ UNCHANGED <<pollHandle, published>>
  /\ wFrame

\* stop(): clearInterval(pollHandle); pollHandle = null
stop ==
  /\ pollHandle = "set"
  /\ HostIdle
  /\ pollHandle' = "null"
  /\ UNCHANGED <<mail, errorsDir, ticks, sendCalls, taskCalls, published, unlinkFailed>>
  /\ wFrame

\* The call a tick awaits settles: the promise deps.sendMessage or deps.onTask
\* returned for the tick's current entry is fulfilled or rejected.
Settled(calls, t, ok) ==
  [n \in 1..Len(calls) |->
     IF calls[n].tick = t /\ calls[n].outcome = "pending"
     THEN [calls[n] EXCEPT !.outcome = IF ok THEN "fulfilled" ELSE "rejected"]
     ELSE calls[n]]

SettledCall(ws, t, ok) ==
  IF ws.ticks[t].box = "messages"
  THEN [ws EXCEPT !.sendCalls = Settled(@, t, ok)]
  ELSE [ws EXCEPT !.taskCalls = Settled(@, t, ok)]

\* How an awaited call settles: it is fulfilled, it is rejected with an Error, or
\* it is rejected with undefined or null (Promise.reject(), throw undefined).
Settlements == {"fulfilled", "rejected", "rejectedNullish"}

\* The awaited deps.sendMessage / deps.onTask settles. A rejection is caught: the
\* catch block reads err.message for the log and calls moveToErrors, and the loop
\* goes on. With a rejection value of undefined or null the read of err.message
\* throws inside the catch block: poll() ends there, rejected, moveToErrors is not
\* called and the entries left are not dispatched.
CollaboratorSettles(t, how, writes) ==
  /\ ticks[t].pc = "await"
  /\ HostIdle
  /\ how # "rejected" => writes
  /\ LET ws0 == SettledCall(WState, t, how = "fulfilled")
         ws1 == IF how = "fulfilled" THEN ws0 ELSE moveToErrors(ws0, t, writes)
         ws2 == [ws1 EXCEPT !.ticks[t].pc = "run", !.ticks[t].k = @ + 1]
     IN InstallW(IF how = "rejectedNullish"
                 THEN [ws0 EXCEPT !.ticks[t] = DoneTick]
                 ELSE Advance(ws2, t))
  /\ UNCHANGED <<pollHandle, published>>
  /\ wFrame

\* A container's MCP server publishes an entry (writeIpcFile has renamed it).
ContainerPublishes(f, box, data) ==
  /\ published < MaxEntries
  /\ mail' = [mail EXCEPT ![f][box] = Put(@, FinalName(published + 1), data)]
  /\ published' = published + 1
  /\ UNCHANGED <<pollHandle, errorsDir, ticks, sendCalls, taskCalls, unlinkFailed>>
  /\ wFrame

WInit ==
  /\ pollHandle = "null"
  /\ mail = [f \in {Folders[k] : k \in 1..Len(Folders)} |-> [b \in Boxes |-> EmptyBox]]
  /\ errorsDir = {}
  /\ ticks = <<>>
  /\ sendCalls = <<>>
  /\ taskCalls = <<>>
  /\ published = 0
  /\ unlinkFailed = {}

WNext ==
  \/ \E r \in Registries : startIpcWatcher(r)
  \/ \E r \in Registries : IntervalFires(r)
  \/ stop
  \/ \E t \in 1..Len(ticks) : \E kept \in SUBSET {FinalName(n) : n \in 1..MaxEntries} :
       PollDrains(t, kept)
  \/ \E t \in 1..Len(ticks) : \E how \in Settlements : \E writes \in BOOLEAN :
       CollaboratorSettles(t, how, writes)
  \/ \E f \in DOMAIN mail : \E d \in MessageEntries : ContainerPublishes(f, "messages", d)
  \/ \E f \in DOMAIN mail : \E d \in TaskEntries : ContainerPublishes(f, "tasks", d)

\* The watcher of a host where both folders are registered, every entry published
\* is one the poll dispatches, and the drains delete every file they return.
WDeletesNext ==
  \/ startIpcWatcher(<<GMain, G1>>)
  \/ IntervalFires(<<GMain, G1>>)
  \/ stop
  \/ \E t \in 1..Len(ticks) : PollDrains(t, {})
  \/ \E t \in 1..Len(ticks) : \E how \in Settlements : \E writes \in BOOLEAN :
       CollaboratorSettles(t, how, writes)
  \/ \E f \in DOMAIN mail : ContainerPublishes(f, "messages", Msg("", "", "hi"))
  \/ \E f \in DOMAIN mail : ContainerPublishes(f, "tasks", [type |-> "pause_task"])

\* One mailbox under load: the only registered group is g1 and its container
\* publishes into <dataDir>/ipc/g1/messages, up to MaxBurst entries; the drains
\* delete every file they return.
MaxBurst == 3

MailboxPublishes(data) ==
  /\ published < MaxBurst
  /\ mail' = [mail EXCEPT !["g1"]["messages"] = Put(@, FinalName(published + 1), data)]
  /\ published' = published + 1
  /\ UNCHANGED <<pollHandle, errorsDir, ticks, sendCalls, taskCalls, unlinkFailed>>
  /\ wFrame

WBurstNext ==
  \/ startIpcWatcher(<<G1>>)
  \/ IntervalFires(<<G1>>)
  \/ \E t \in 1..Len(ticks) : PollDrains(t, {})
  \/ \E t \in 1..Len(ticks) : \E how \in Settlements : \E writes \in BOOLEAN :
       CollaboratorSettles(t, how, writes)
  \/ MailboxPublishes(Msg("", "", "hi"))

\* A process that calls startIpcWatcher more than once: every call creates an
\* interval timer of its own and assigns it to the one module-level pollHandle.
MaxWatchers == 3
\* Number of poll() invocations in one behaviour of such a process.
MaxPolls == 5

wsFrame == UNCHANGED <<qvars, fsvars, rvars, mvars, svars>>

\* startIpcWatcher(deps, config): pollHandle = setInterval(poll, ...); poll()
WatcherStarts ==
  /\ watchers.started < MaxWatchers
  /\ HostIdle
  /\ Len(ticks) < MaxPolls
  /\ LET w == watchers.started + 1 IN
     watchers' = [watchers EXCEPT !.started = w, !.timers = @ \cup {w}, !.handle = w,
                                  !.polls = Append(@, w)]
  /\ pollHandle' = "set"
  /\ StartPoll(<<G1>>)
  /\ UNCHANGED <<published, unlinkFailed>>
  /\ wsFrame

\* The interval timer that call w created fires: poll()
TickerFires(w) ==
  /\ w \in watchers.timers
  /\ HostIdle
  /\ Len(ticks) < MaxPolls
  /\ watchers' = [watchers EXCEPT !.polls = Append(@, w)]
  /\ StartPoll(<<G1>>)
  /\ UNCHANGED <<pollHandle, published>>
  /\ wsFrame

\* The stop() that call w returned, called for the first time or again:
\* if (pollHandle) { clearInterval(pollHandle); pollHandle = null }. It clears the
\* timer the shared handle holds at that moment, and nothing when the handle is null.
StopCalled(w) ==
  /\ w \in 1..watchers.started
  /\ HostIdle
  /\ watchers' = [watchers EXCEPT !.stopped = @ \cup {w},
                                  !.timers = @ \ {watchers.handle},
                                  !.handle = 0]
  /\ pollHandle' = "null"
  /\ UNCHANGED <<mail, errorsDir, ticks, sendCalls, taskCalls, published, unlinkFailed>>
  /\ wsFrame

PInit ==
  watchers = [started |-> 0, timers |-> {}, handle |-> 0, stopped |-> {}, polls |-> <<>>]

WatchersNext ==
  \/ WatcherStarts
  \/ \E w \in 1..MaxWatchers : TickerFires(w)
  \/ \E w \in 1..MaxWatchers : StopCalled(w)
  \/ \E t \in 1..Len(ticks) : PollDrains(t, {})

\* ------------------------------------------------------------------------
\* Container runner: parseContainerOutput and runContainerAgent
\* ------------------------------------------------------------------------
\* Number of outputs the container writes in one behaviour.
MaxFrames == 2

\* config.maxOutputSize (default); every stream of the model stays below it.
maxOutputSize == 10485760

\* Text is a sequence of tokens, each a run of characters that no chunk boundary
\* splits. The two markers differ in their middle token only; no marker can begin
\* or end inside another token, so searching tokens is searching characters.
NL == "\n"
OUTPUT_START_MARKER == <<"---JSCLAW_", "OUTPUT_START", "---">>
OUTPUT_END_MARKER == <<"---JSCLAW_", "OUTPUT_END", "---">>

\* lastOutput = null
NoOutput == [status |-> "null", result |-> <<>>, newSessionId |-> "", error |-> <<>>]

\* ContainerOutput values the agent runner writes: result is the text of a string
\* (<<>> for null), newSessionId and error are absent when empty.
OutOk == [status |-> "success", result |-> <<"ok">>, newSessionId |-> "s1", error |-> <<>>]
OutQuote == [status |-> "success",
             result |-> <<"the end marker is", " ">> \o OUTPUT_END_MARKER,
             newSessionId |-> "", error |-> <<>>]
OutErr == [status |-> "error", result |-> <<>>, newSessionId |-> "", error |-> <<"boom">>]
Outputs == {OutOk, OutQuote, OutErr}

\* JSON.stringify(output): the structure as tokens, a string's text between quotes.
JsonStringify(o) ==
  <<"{", o.status, o.newSessionId, IF o.error = <<>> THEN "" ELSE o.error[1]>>
  \o (IF o.result = <<>> THEN <<"null">> ELSE <<"\"">> \o o.result \o <<"\"">>)
  \o <<"}">>

\* JSON.parse succeeds on complete documents only.
JsonParses(t) ==
  /\ Len(t) >= 6
  /\ t[1] = "{" /\ t[Len(t)] = "}"
  /\ t[2] \in {"success", "error"}
  /\ \/ Len(t) = 6 /\ t[5] = "null"
     \/ /\ Len(t) >= 7 /\ t[5] = "\"" /\ t[Len(t) - 1] = "\""
        /\ \A k \in 6..(Len(t) - 2) : t[k] \notin {"\"", "{", "}", NL}

JsonParse(t) ==
  [status |-> t[2], newSessionId |-> t[3],
   error |-> IF t[4] = "" THEN <<>> ELSE <<t[4]>>,
   result |-> IF t[5] = "null" THEN <<>> ELSE SubSeq(t, 6, Len(t) - 2)]

\* writeOutput(output): `\n${START}\n${JSON.stringify(output)}\n${END}\n`
writeOutput(o) ==
  <<NL>> \o OUTPUT_START_MARKER \o <<NL>> \o JsonStringify(o) \o <<NL>>
  \o OUTPUT_END_MARKER \o <<NL>>

\* String.prototype.indexOf(needle, from), 1-based; 0 stands for -1.
IndexOf(hay, needle, from) ==
  LET C == {k \in from..(Len(hay) - Len(needle) + 1) :
              SubSeq(hay, k, k + Len(needle) - 1) = needle}
  IN IF C = {} THEN 0 ELSE Min(C)

\* White space is a token of its own.
WhiteSpace == {NL, " ", "\t", "\r"}

\* String.prototype.trim(): the text without its leading and trailing white space.
RECURSIVE Trim(_)
Trim(t) ==
  IF t = <<>> THEN t
  ELSE IF Head(t) \in WhiteSpace THEN Trim(Tail(t))
  ELSE IF t[Len(t)] \in WhiteSpace THEN Trim(SubSeq(t, 1, Len(t) - 1))
  ELSE t

\* The number of characters of a token. A text of more than 200 characters is cut
\* into tokens so that its character 200 ends a token.
Width(tok) ==
  CASE tok \in {"x*100", "z*100"} -> 100
    [] tok = "y*99" -> 99
    [] tok = "the end marker is" -> 17
    [] tok \in {"OUTPUT_START"} -> 12
    [] tok \in {"---JSCLAW_", "OUTPUT_END"} -> 10
    [] tok = "success" -> 7
    [] tok = "error" -> 5
    [] tok \in {"oops", "boom", "null"} -> 4
    [] tok = "---" -> 3
    [] tok \in {"ok", "s1"} -> 2
    [] tok = "" -> 0
    [] OTHER -> 1

\* String.prototype.slice(0, n): the first n characters.
RECURSIVE SliceChars(_, _)
SliceChars(t, n) ==
  IF t = <<>> \/ Width(Head(t)) > n THEN <<>>
  ELSE <<Head(t)>> \o SliceChars(Tail(t), n - Width(Head(t)))

\* The output pushed when JSON.parse throws.
ParseFailure(jsonStr) ==
  [status |-> "error", result |-> <<>>, newSessionId |-> "",
   error |-> <<"Failed to parse output: ">> \o SliceChars(jsonStr, 200)]

RECURSIVE ParseLoopDropsAfterFailure(_, _)
ParseLoopDropsAfterFailure(outputs, remaining) ==
  LET startIdx == IndexOf(remaining, OUTPUT_START_MARKER, 1) IN
  IF startIdx = 0 THEN [outputs |-> outputs, remaining |-> remaining]
  ELSE LET afterStart == startIdx + Len(OUTPUT_START_MARKER)
           endIdx == IndexOf(remaining, OUTPUT_END_MARKER, afterStart)
       IN IF endIdx = 0 THEN [outputs |-> outputs, remaining |-> remaining]
          ELSE LET jsonStr == Trim(SubSeq(remaining, afterStart, endIdx - 1))
                   rest == SubSeq(remaining, endIdx + Len(OUTPUT_END_MARKER), Len(remaining))
               IN IF JsonParses(jsonStr)
                  THEN ParseLoopDropsAfterFailure(Append(outputs, JsonParse(jsonStr)), rest)
                  ELSE [outputs |-> Append(outputs, ParseFailure(jsonStr)), remaining |-> <<>>]

\* The while (true) loop of parseContainerOutput.
RECURSIVE ParseLoop(_, _)
ParseLoop(outputs, remaining) ==
  LET startIdx == IndexOf(remaining, OUTPUT_START_MARKER, 1) IN
  IF startIdx = 0 THEN [outputs |-> outputs, remaining |-> remaining]
  ELSE LET afterStart == startIdx + Len(OUTPUT_START_MARKER)
           endIdx == IndexOf(remaining, OUTPUT_END_MARKER, afterStart)
       IN IF endIdx = 0 THEN [outputs |-> outputs, remaining |-> remaining]
          ELSE LET jsonStr == Trim(SubSeq(remaining, afterStart, endIdx - 1))
                   o == IF JsonParses(jsonStr) THEN JsonParse(jsonStr)
                        ELSE ParseFailure(jsonStr)
               IN ParseLoop(Append(outputs, o),
                            SubSeq(remaining, endIdx + Len(OUTPUT_END_MARKER),
                                   Len(remaining)))

\* parseContainerOutput(buffer)
parseContainerOutput(buffer) == ParseLoop(<<>>, buffer)

\* resolve(value) / reject(value) of the returned promise: only the first settles it.
Resolve(p, v) ==
  IF p.state = "pending"
  THEN [p EXCEPT !.state = "resolved", !.value = v, !.settles = @ + 1]
  ELSE p
Reject(p, v) ==
  IF p.state = "pending"
  THEN [p EXCEPT !.state = "rejected", !.value = v, !.settles = @ + 1]
  ELSE p

\* reject(new Error(`Failed to spawn container: ${err.message}`))
SpawnError ==
  [status |-> "thrown", result |-> <<>>, newSessionId |-> "",
   error |-> <<"Failed to spawn container: ", "ENOENT">>]

\* The exit codes of a container, and the code 'close' carries after a failed spawn.
ExitCodes == {0, 1}
SpawnFailedCode == 0 - 2
CodeText(c) == IF c = 0 THEN "0" ELSE IF c = 1 THEN "1" ELSE "-2"

\* The value the 'close' handler passes to resolve.
CloseResolutionLastOutputFirst(isTimedOut, last, code) ==
  IF last # NoOutput THEN last
  ELSE IF isTimedOut
  THEN [status |-> "error", result |-> last.result,
        error |-> <<"Container timed out after ", "containerTimeout", "ms">>,
        newSessionId |-> last.newSessionId]
  ELSE IF code = 0
  THEN [status |-> "success", result |-> <<>>, newSessionId |-> "", error |-> <<>>]
  ELSE [status |-> "error", result |-> <<>>, newSessionId |-> "",
        error |-> <<"Container exited with code ", CodeText(code)>>]

CloseResolution(isTimedOut, last, code) ==
  IF isTimedOut
  THEN [status |-> "error", result |-> last.result,
        error |-> <<"Container timed out after ", "containerTimeout", "ms">>,
        newSessionId |-> last.newSessionId]
  ELSE IF last # NoOutput THEN last
  ELSE IF code = 0
  THEN [status |-> "success", result |-> <<>>, newSessionId |-> "", error |-> <<>>]
  ELSE [status |-> "error", result |-> <<>>, newSessionId |-> "",
        error |-> <<"Container exited with code ", CodeText(code)>>]

\* killContainer(containerName, config): exec(`${runtime} stop ${containerName}`, cb);
\* the stop command then runs, and cb is called when it has ended.
killContainer(k) == [k EXCEPT !.stops = @ + 1, !.stopping = @ + 1]

\* The optional arguments onProcess and onOutput: both passed, or neither.
CallbackChoices == {[onProcess |-> TRUE, onOutput |-> TRUE],
                    [onProcess |-> FALSE, onOutput |-> FALSE]}

rFrame == UNCHANGED <<qvars, fsvars, wvars, mvars, svars, pvars>>

\* runContainerAgent(group, input, onProcess, onOutput, config) up to the end of the
\* promise executor: spawn, onProcess, the idle timer, the listeners, stdin.
runContainerAgent(spawnOk, cbs) ==
  /\ spawned = "none"
  /\ spawned' = IF spawnOk THEN "ok" ELSE "failed"
  /\ callbacks' = cbs
  /\ onProcessCalls' = IF cbs.onProcess THEN onProcessCalls + 1 ELSE onProcessCalls
  /\ child' = IF spawnOk THEN [state |-> "running", code |-> 0] ELSE child
  /\ timeoutHandle' = "armed"
  /\ UNCHANGED <<pipe, wrote, stdoutBuffer, parsed, handlers, outCalls, lastOutput,
                 timedOut, killer, promise, fired>>
  /\ rFrame

\* The agent runner in the container calls writeOutput(output).
ContainerWrites(o) ==
  /\ child.state = "running"
  /\ Len(wrote) < MaxFrames
  /\ pipe' = pipe \o writeOutput(o)
  /\ wrote' = Append(wrote, o)
  /\ UNCHANGED <<spawned, callbacks, onProcessCalls, child, stdoutBuffer, parsed, handlers,
                 outCalls, lastOutput, timedOut, timeoutHandle, killer, promise, fired>>
  /\ rFrame

\* Payloads that are not JSON documents: a truncated document, nothing, and 301
\* characters that begin a document.
LongPayload == <<"{", "x*100", "y*99", "y", "z*100">>
DamagedPayloads == {<<"{", "oops">>, <<>>, LongPayload}

\* The record of a frame written with such a payload.
Damaged(payload) ==
  [status |-> "damaged", result |-> payload, newSessionId |-> "", error |-> <<>>]

\* The container's stdout carries a complete frame whose payload JSON.parse rejects.
ContainerWritesDamaged(payload) ==
  /\ child.state = "running"
  /\ Len(wrote) < MaxFrames
  /\ pipe' = pipe \o <<NL>> \o OUTPUT_START_MARKER \o <<NL>> \o payload \o <<NL>>
                \o OUTPUT_END_MARKER \o <<NL>>
  /\ wrote' = Append(wrote, Damaged(payload))
  /\ UNCHANGED <<spawned, callbacks, onProcessCalls, child, stdoutBuffer, parsed, handlers,
                 outCalls, lastOutput, timedOut, timeoutHandle, killer, promise, fired>>
  /\ rFrame

\* The container process ends, by itself or stopped.
ContainerExits(c) ==
  /\ child.state = "running"
  /\ child' = [state |-> "exited", code |-> c]
  /\ UNCHANGED <<spawned, callbacks, onProcessCalls, pipe, wrote, stdoutBuffer, parsed,
                 handlers, outCalls, lastOutput, timedOut, timeoutHandle, killer, promise,
                 fired>>
  /\ rFrame

\* The sizes of the next chunk: one token, up to the end of an end marker, or all
\* that is written. A chunk that ends elsewhere leaves the handler's state as the
\* chunk up to the last end marker in it followed by one-token chunks does, so
\* these sizes reach the states that every split of the stream reaches.
ChunkSizes ==
  {1, Len(pipe)} \cup {n \in 3..Len(pipe) : SubSeq(pipe, n - 2, n) = OUTPUT_END_MARKER}

\* proc.stdout.on('data', async (chunk) => ...) up to its first await (or its end):
\* the chunk is the next n tokens of the stream.
StdoutData(n) ==
  /\ spawned = "ok"
  /\ n \in 1..Len(pipe)
  /\ pipe' = SubSeq(pipe, n + 1, Len(pipe))
  /\ LET buf == stdoutBuffer \o SubSeq(pipe, 1, n) IN
     IF Len(buf) > maxOutputSize
     THEN /\ stdoutBuffer' = buf
          /\ killer' = killContainer(killer)
          /\ UNCHANGED <<parsed, handlers, outCalls, lastOutput, timeoutHandle>>
     ELSE LET p == parseContainerOutput(buf) IN
          /\ stdoutBuffer' = p.remaining
          /\ parsed' = parsed \o p.outputs
          /\ killer' = killer
          /\ IF p.outputs = <<>>
             THEN UNCHANGED <<handlers, outCalls, lastOutput, timeoutHandle>>
             ELSE /\ timeoutHandle' = "armed"
                  /\ IF callbacks.onOutput
                     THEN /\ lastOutput' = Head(p.outputs)
                          /\ outCalls' = Append(outCalls, [out |-> Head(p.outputs),
                                                           settled |-> FALSE])
                          /\ handlers' = Append(handlers, [outs |-> p.outputs,
                                                           call |-> Len(outCalls) + 1])
                     ELSE /\ lastOutput' = p.outputs[Len(p.outputs)]
                          /\ UNCHANGED <<handlers, outCalls>>
  /\ UNCHANGED <<spawned, callbacks, onProcessCalls, child, wrote, timedOut, promise, fired>>
  /\ rFrame

\* The onOutput call a 'data' handler awaits settles. A fulfilment, and a rejection
\* with an Error, which is caught and logged, let the handler go on to its next
\* output, up to the next await or its end. A rejection with undefined or null
\* makes the catch block throw at err.message: the handler ends there and the
\* outputs left in its chunk are dropped.
OnOutputSettles(h, nullish) ==
  /\ h \in 1..Len(handlers)
  /\ LET rest == IF nullish THEN <<>> ELSE Tail(handlers[h].outs)
         done == [outCalls EXCEPT ![handlers[h].call].settled = TRUE]
     IN IF rest = <<>>
        THEN /\ handlers' = SubSeq(handlers, 1, h - 1) \o SubSeq(handlers, h + 1, Len(handlers))
             /\ outCalls' = done
             /\ UNCHANGED <<lastOutput, timeoutHandle>>
        ELSE /\ lastOutput' = Head(rest)
             /\ timeoutHandle' = "armed"
             /\ outCalls' = Append(done, [out |-> Head(rest), settled |-> FALSE])
             /\ handlers' = [handlers EXCEPT ![h] = [outs |-> rest, call |-> Len(outCalls) + 1]]
  /\ UNCHANGED <<spawned, callbacks, onProcessCalls, child, pipe, wrote, stdoutBuffer, parsed,
                 timedOut, killer, promise, fired>>
  /\ rFrame

\* The idle timer fires: timedOut = true; killContainer(containerName, config).
\* (The 'error' event of a failed spawn is emitted on the next tick, before any timer.)
TimerFires ==
  /\ timeoutHandle = "armed"
  /\ spawned = "ok"
  /\ timedOut' = TRUE
  /\ timeoutHandle' = "none"
  /\ killer' = killContainer(killer)
  /\ fired' = fired \cup {promise.state}
  /\ UNCHANGED <<spawned, callbacks, onProcessCalls, child, pipe, wrote, stdoutBuffer, parsed,
                 handlers, outCalls, lastOutput, promise>>
  /\ rFrame

\* A stop command has ended and the callback of its exec runs:
\* if (err) exec(`${runtime} kill ${containerName}`, () => {})
StopCommandEnds(stopFails) ==
  /\ killer.stopping > 0
  /\ killer' = [killer EXCEPT !.stopping = @ - 1,
                              !.kills = IF stopFails THEN @ + 1 ELSE @]
  /\ UNCHANGED <<spawned, callbacks, onProcessCalls, child, pipe, wrote, stdoutBuffer, parsed,
                 handlers, outCalls, lastOutput, timedOut, timeoutHandle, promise, fired>>
  /\ rFrame

\* proc.on('error', ...): the spawn failed.
ChildError ==
  /\ spawned = "failed"
  /\ ~promise.errored
  /\ timeoutHandle' = "none"
  /\ promise' = [Reject(promise, SpawnError) EXCEPT !.errored = TRUE]
  /\ UNCHANGED <<spawned, callbacks, onProcessCalls, child, pipe, wrote, stdoutBuffer, parsed,
                 handlers, outCalls, lastOutput, timedOut, killer, fired>>
  /\ rFrame

\* proc.on('close', (code) => ...): emitted once the process has ended and its
\* stdout has been read to the end, or after the 'error' of a failed spawn.
ChildClose(code) ==
  /\ ~promise.closed
  /\ \/ child.state = "exited" /\ pipe = <<>> /\ code = child.code
     \/ spawned = "failed" /\ promise.errored /\ code = SpawnFailedCode
  /\ timeoutHandle' = "none"
  /\ LET v == CloseResolution(timedOut, lastOutput, code) IN
     promise' = [Resolve(promise, v) EXCEPT
                   !.closed = TRUE,
                   !.atClose = [timedOut |-> timedOut, lastOutput |-> lastOutput,
                                code |-> code, arg |-> v]]
  /\ UNCHANGED <<spawned, callbacks, onProcessCalls, child, pipe, wrote, stdoutBuffer, parsed,
                 handlers, outCalls, lastOutput, timedOut, killer, fired>>
  /\ rFrame

RInit ==
  /\ spawned = "none"
  /\ callbacks = [onProcess |-> FALSE, onOutput |-> FALSE]
  /\ onProcessCalls = 0
  /\ child = [state |-> "none", code |-> 0]
  /\ pipe = <<>>
  /\ wrote = <<>>
  /\ stdoutBuffer = <<>>
  /\ parsed = <<>>
  /\ handlers = <<>>
  /\ outCalls = <<>>
  /\ lastOutput = NoOutput
  /\ timedOut = FALSE
  /\ timeoutHandle = "none"
  /\ killer = [stops |-> 0, stopping |-> 0, kills |-> 0]
  /\ promise = [state |-> "pending", value |-> NoOutput, settles |-> 0,
                errored |-> FALSE, closed |-> FALSE,
                atClose |-> [timedOut |-> FALSE, lastOutput |-> NoOutput,
                             code |-> 0, arg |-> NoOutput]]
  /\ fired = {}

RNext ==
  \/ \E ok \in BOOLEAN : \E cbs \in CallbackChoices : runContainerAgent(ok, cbs)
  \/ \E o \in Outputs : ContainerWrites(o)
  \/ \E c \in ExitCodes : ContainerExits(c)
  \/ \E n \in ChunkSizes : StdoutData(n)
  \/ \E h \in 1..Len(handlers) : \E nullish \in BOOLEAN : OnOutputSettles(h, nullish)
  \/ TimerFires
  \/ \E stopFails \in BOOLEAN : StopCommandEnds(stopFails)
  \/ ChildError
  \/ \E c \in ExitCodes \cup {SpawnFailedCode} : ChildClose(c)

\* The runner reading a stdout on which some frames are damaged.
RDamagedNext ==
  \/ \E cbs \in CallbackChoices : runContainerAgent(TRUE, cbs)
  \/ \E o \in {OutOk, OutErr} : ContainerWrites(o)
  \/ \E payload \in DamagedPayloads : ContainerWritesDamaged(payload)
  \/ \E c \in ExitCodes : ContainerExits(c)
  \/ \E n \in ChunkSizes : StdoutData(n)
  \/ \E h \in 1..Len(handlers) : \E nullish \in BOOLEAN : OnOutputSettles(h, nullish)
  \/ \E c \in ExitCodes : ChildClose(c)

\* ------------------------------------------------------------------------
\* Mount validator: loadMountAllowlist, matchesBlocked, validateMount,
\* validateAdditionalMounts
\* ------------------------------------------------------------------------
\* Largest number of mounts in one validateAdditionalMounts call.
MaxMounts == 2

\* Paths are token sequences, as text is: "/" and the runs between separators,
\* cut further where a blocked pattern begins or ends inside a name.
DEFAULT_BLOCKED_PATTERNS ==
  << <<".ssh">>, <<".gnupg">>, <<".gpg">>, <<".aws">>, <<".azure">>, <<".gcloud">>,
     <<".config", "/", "gcloud">>, <<".kube">>, <<".docker">>, <<".env">>,
     <<"private_key">>, <<"id_rsa">>, <<"id_ed25519">>, <<"credentials">>,
     <<"secrets">>, <<".npmrc">>, <<".pypirc">> >>

\* String.prototype.toLowerCase(), token by token.
LowerToken(tok) == IF tok = ".SSH" THEN ".ssh" ELSE IF tok = "Proj" THEN "proj" ELSE tok
ToLowerCase(t) == [k \in 1..Len(t) |-> LowerToken(t[k])]

\* Host paths offered as host_path, and the host's file system: realpathSync
\* resolves /home/u/link to /etc/secrets and throws for /home/u/gone.
HomeU == <<"/", "home", "/", "u">>
PathProj == HomeU \o <<"/", "Proj">>
PathSsh == HomeU \o <<"/", ".SSH">>
PathEnvFile == HomeU \o <<"/", "my", ".env", ".bak">>
PathLink == HomeU \o <<"/", "link">>
PathGone == HomeU \o <<"/", "gone">>
PathTmp == <<"/", "tmp">>
RealpathThrows(p) == p = PathGone
Realpath(p) == IF p = PathLink THEN <<"/", "etc", "/", "secrets">> ELSE p

\* Container paths offered as container_path.
CPathOk == <<"/", "mnt", "/", "k">>
CPathRelative == <<"mnt", "/", "k">>
CPathDots == <<"/", "mnt", "/", "..", "/", "etc">>

\* The mounts offered to the validator.
Mount(h, c) == [host_path |-> h, container_path |-> c]
MountChoices == {Mount(PathProj, CPathOk), Mount(PathSsh, CPathOk), Mount(PathLink, CPathOk),
                 Mount(PathGone, CPathOk), Mount(PathTmp, CPathOk),
                 Mount(PathEnvFile, CPathOk), Mount(PathProj, CPathRelative),
                 Mount(PathProj, CPathDots)}
MountLists == UNION {[1..n -> MountChoices] : n \in 0..MaxMounts}

\* The allowlistPath argument and the file behind it: the path is unset, the file
\* cannot be read, is not JSON, has no allowed_roots, has allowed_roots that is not
\* an array, or is an allowlist. blocked_patterns is absent, ["proj"], or ["", "proj"].
NoAllowlistKinds == {"unset", "unreadable", "invalidJson", "rootsMissing", "rootsNotArray"}
AllowlistFile(kind, roots, blocked) == [kind |-> kind, roots |-> roots, blocked |-> blocked]
StartsWithPath(t, prefix) == Len(prefix) <= Len(t) /\ SubSeq(t, 1, Len(prefix)) = prefix

\* allowed_roots as written in the file: /home/u, with /tmp before it, with a
\* trailing separator, spelled /tmp/../home/u, and the relative home/u.
RootSlash == HomeU \o <<"/">>
RootDotDot == PathTmp \o <<"/", "..", "/", "home", "/", "u">>
RootRelative == <<"home", "/", "u">>
RootLists == {<< HomeU >>, << PathTmp, HomeU >>, << RootSlash >>, << RootDotDot >>,
              << RootRelative >>}
AllowlistFiles ==
  {AllowlistFile(k, <<>>, <<>>) : k \in NoAllowlistKinds}
  \cup {AllowlistFile("ok", r, b) : r \in RootLists,
                                    b \in {<<>>, << <<"proj">> >>, << <<>>, <<"proj">> >>}}

\* path.resolve(p) of node:path: a relative path is taken from process.cwd();
\* empty and "." segments are dropped, ".." removes the segment before it, and
\* the result has no trailing separator.
Cwd == <<"/", "srv", "/", "app">>
RECURSIVE SegmentsFrom(_, _)
SegmentsFrom(t, cur) ==
  IF t = <<>> THEN <<cur>>
  ELSE IF Head(t) = "/" THEN <<cur>> \o SegmentsFrom(Tail(t), <<>>)
  ELSE SegmentsFrom(Tail(t), Append(cur, Head(t)))
RECURSIVE NormalizeSegments(_, _)
NormalizeSegments(segs, out) ==
  IF segs = <<>> THEN out
  ELSE IF Head(segs) = <<>> \/ Head(segs) = <<".">> THEN NormalizeSegments(Tail(segs), out)
  ELSE IF Head(segs) = <<"..">>
  THEN NormalizeSegments(Tail(segs), IF out = <<>> THEN out ELSE SubSeq(out, 1, Len(out) - 1))
  ELSE NormalizeSegments(Tail(segs), Append(out, Head(segs)))
RECURSIVE JoinSegments(_)
JoinSegments(segs) ==
  IF segs = <<>> THEN <<>> ELSE <<"/">> \o Head(segs) \o JoinSegments(Tail(segs))
PathResolve(p) ==
  LET absolute == IF StartsWithPath(p, <<"/">>) THEN p ELSE Cwd \o <<"/">> \o p
      segs == NormalizeSegments(SegmentsFrom(absolute, <<>>), <<>>)
  IN IF segs = <<>> THEN <<"/">> ELSE JoinSegments(segs)

\* loadMountAllowlist(allowlistPath): null (FALSE here) or the allowlist, its
\* allowed_roots resolved.
AllowlistLoads(file) == file.kind = "ok"
loadMountAllowlist(file) ==
  [allowed_roots |-> [k \in 1..Len(file.roots) |-> PathResolve(file.roots[k])],
   blocked_patterns |-> file.blocked]

\* String.prototype.includes(pattern)
Includes(t, pattern) == IndexOf(t, pattern, 1) # 0

\* matchesBlocked(hostPath, extraBlocked): the index of the first matching pattern
\* of [...DEFAULT_BLOCKED_PATTERNS, ...extraBlocked], 0 for null.
matchesBlocked(hostPath, extraBlocked) ==
  LET allBlocked == DEFAULT_BLOCKED_PATTERNS \o extraBlocked
      normalized == ToLowerCase(hostPath)
      hits == {k \in 1..Len(allBlocked) : Includes(normalized, ToLowerCase(allBlocked[k]))}
  IN IF hits = {} THEN <<>> ELSE allBlocked[Min(hits)]

Invalid(kind, detail) == [valid |-> FALSE, reason |-> [kind |-> kind, detail |-> detail]]

validateMountMainAnyRoot(mount, isMain, allowlist) ==
  IF Includes(mount.container_path, <<"..">>) \/ ~StartsWithPath(mount.container_path, <<"/">>)
  THEN Invalid("Invalid container path", mount.container_path)
  ELSE IF RealpathThrows(mount.host_path)
  THEN Invalid("Host path does not exist", mount.host_path)
  ELSE LET realHostPath == Realpath(mount.host_path)
           blocked == matchesBlocked(realHostPath, allowlist.blocked_patterns)
       IN IF blocked # <<>>
          THEN Invalid("Path matches blocked pattern", blocked)
          ELSE IF ~isMain /\ ~\E k \in 1..Len(allowlist.allowed_roots) :
                     \/ realHostPath = allowlist.allowed_roots[k]
                     \/ StartsWithPath(realHostPath, allowlist.allowed_roots[k] \o <<"/">>)
          THEN Invalid("Path not under any allowed root", realHostPath)
          ELSE [valid |-> TRUE, reason |-> [kind |-> "", detail |-> <<>>]]

\* validateMount(mount, isMain, allowlist)
validateMount(mount, isMain, allowlist) ==
  IF Includes(mount.container_path, <<"..">>) \/ ~StartsWithPath(mount.container_path, <<"/">>)
  THEN Invalid("Invalid container path", mount.container_path)
  ELSE IF RealpathThrows(mount.host_path)
  THEN Invalid("Host path does not exist", mount.host_path)
  ELSE LET realHostPath == Realpath(mount.host_path)
           blocked == matchesBlocked(realHostPath, allowlist.blocked_patterns)
       IN IF blocked # <<>>
          THEN Invalid("Path matches blocked pattern", blocked)
          ELSE IF ~\E k \in 1..Len(allowlist.allowed_roots) :
                     \/ realHostPath = allowlist.allowed_roots[k]
                     \/ StartsWithPath(realHostPath, allowlist.allowed_roots[k] \o <<"/">>)
          THEN Invalid("Path not under any allowed root", realHostPath)
          ELSE [valid |-> TRUE, reason |-> [kind |-> "", detail |-> <<>>]]

\* The reasons of the mounts that validateMount rejects, in order.
RECURSIVE MountErrors(_, _, _)
MountErrors(mounts, isMain, allowlist) ==
  IF mounts = <<>> THEN <<>>
  ELSE LET result == validateMount(Head(mounts), isMain, allowlist)
       IN (IF result.valid THEN <<>> ELSE <<result.reason>>)
          \o MountErrors(Tail(mounts), isMain, allowlist)

validateAdditionalMountsAllowlistFirst(mounts, isMain, file) ==
  IF file.kind = "unset"
  THEN [valid |-> FALSE, errors |-> <<[kind |-> "No mount allowlist configured",
                                       detail |-> <<>>]>>]
  ELSE IF ~AllowlistLoads(file)
  THEN [valid |-> FALSE, errors |-> <<[kind |-> "Failed to load mount allowlist",
                                       detail |-> <<>>]>>]
  ELSE IF mounts = <<>>
  THEN [valid |-> TRUE, errors |-> <<>>]
  ELSE LET errors == MountErrors(mounts, isMain, loadMountAllowlist(file))
       IN [valid |-> errors = <<>>, errors |-> errors]

\* validateAdditionalMounts(mounts, groupName, isMain, allowlistPath); <<>> stands
\* for an absent and for an empty mounts argument.
validateAdditionalMounts(mounts, isMain, file) ==
  IF mounts = <<>>
  THEN [valid |-> TRUE, errors |-> <<>>]
  ELSE IF file.kind = "unset"
  THEN [valid |-> FALSE, errors |-> <<[kind |-> "No mount allowlist configured",
                                       detail |-> <<>>]>>]
  ELSE IF ~AllowlistLoads(file)
  THEN [valid |-> FALSE, errors |-> <<[kind |-> "Failed to load mount allowlist",
                                       detail |-> <<>>]>>]
  ELSE LET errors == MountErrors(mounts, isMain, loadMountAllowlist(file))
       IN [valid |-> errors = <<>>, errors |-> errors]

\* group.additionalMounts: VolumeMount {hostPath, containerPath, readOnly}
VolumeMount(h, c, ro) == [hostPath |-> h, containerPath |-> c, readOnly |-> ro]
VolumeMountChoices ==
  {VolumeMount(m.host_path, m.container_path, ro) : m \in MountChoices, ro \in BOOLEAN}
VolumeMountLists == UNION {[1..n -> VolumeMountChoices] : n \in 0..MaxMounts}

\* An argument is a text, as paths are: a sequence of tokens.
\* The arguments for one additional mount: --mount type=bind,source=..,target=..,readonly
\* or -v host:container
MountArg(mount) ==
  IF mount.readOnly
  THEN << <<"--mount">>, <<"type=bind,source=">> \o mount.hostPath \o <<",target=">>
                         \o mount.containerPath \o <<",readonly">> >>
  ELSE << <<"-v">>, mount.hostPath \o <<":">> \o mount.containerPath >>

RECURSIVE AdditionalMountArgs(_)
AdditionalMountArgs(mounts) ==
  IF mounts = <<>> THEN <<>>
  ELSE MountArg(Head(mounts)) \o AdditionalMountArgs(Tail(mounts))

\* The group workspace and the three IPC directories of the group's folder.
GroupDirArgs ==
  << <<"-v">>, <<"groupsDir", "/", "f1", ":", "/", "workspace", "/", "group">>,
     <<"-v">>, <<"ipcDir", "/", "messages", ":", "/", "workspace", "/", "ipc", "/", "messages">>,
     <<"-v">>, <<"ipcDir", "/", "tasks", ":", "/", "workspace", "/", "ipc", "/", "tasks">>,
     <<"-v">>, <<"ipcDir", "/", "input", ":", "/", "workspace", "/", "ipc", "/", "input">> >>

\* buildVolumeMounts(group, config)
buildVolumeMounts(additionalMounts) == GroupDirArgs \o AdditionalMountArgs(additionalMounts)

\* An environment is a sequence of <<key, value>> pairs, in Object.entries order.
\* for (const [key, value] of Object.entries(envVars)) args.push('-e', `${key}=${value}`)
RECURSIVE EnvArgs(_)
EnvArgs(envVars) ==
  IF envVars = <<>> THEN <<>>
  ELSE << <<"-e">>, <<Head(envVars)[1], "=", Head(envVars)[2]>> >> \o EnvArgs(Tail(envVars))

\* process.env.ANTHROPIC_API_KEY of the host: "" stands for unset (or empty).
ApiKeys == {"", "k"}

\* buildContainerArgs(mountArgs, containerName, config, envVars)
buildContainerArgs(mountArgs, envVars, apiKey) ==
  << <<"run">>, <<"-i">>, <<"--rm">>, <<"--name">>, <<"containerName">> >>
  \o EnvArgs(envVars)
  \o (IF apiKey # "" THEN EnvArgs(<< <<"ANTHROPIC_API_KEY", apiKey>> >>) ELSE <<>>)
  \o mountArgs \o << <<"containerImage">> >>

\* String(input.isMain)
BoolString(b) == IF b THEN "true" ELSE "false"

\* runContainerAgent's envVars, for the input {chatJid: 'j1', groupFolder: 'f1', isMain}
RunnerEnvVars(isMain) ==
  << <<"JSCLAW_CHAT_JID", "j1">>, <<"JSCLAW_GROUP_FOLDER", "f1">>,
     <<"JSCLAW_IS_MAIN", BoolString(isMain)>> >>

mFrame == UNCHANGED <<qvars, fsvars, wvars, rvars, svars, pvars>>

\* runContainerAgent(group, input, ...) up to its call of spawn, for a group that
\* declares additionalMounts on a host whose config.mountAllowlistPath names file.
SpawnArgsBuilt(additionalMounts, isMain, apiKey, file) ==
  /\ ~spawnArgs.built
  /\ spawnArgs' = [built |-> TRUE, additionalMounts |-> additionalMounts, file |-> file,
                   args |-> buildContainerArgs(buildVolumeMounts(additionalMounts),
                                               RunnerEnvVars(isMain), apiKey)]
  /\ UNCHANGED mountCall
  /\ mFrame


\* A caller validates a group's additional mounts.
ValidateCall(mounts, isMain, file) ==
  /\ ~mountCall.called
  /\ mountCall' = [called |-> TRUE, mounts |-> mounts, isMain |-> isMain, file |-> file,
                   result |-> validateAdditionalMounts(mounts, isMain, file)]
  /\ UNCHANGED spawnArgs
  /\ mFrame

MInit ==
  /\ mountCall = [called |-> FALSE, mounts |-> <<>>, isMain |-> FALSE,
               file |-> AllowlistFile("unset", <<>>, <<>>),
               result |-> [valid |-> FALSE, errors |-> <<>>]]
  /\ spawnArgs = [built |-> FALSE, additionalMounts |-> <<>>,
                  file |-> AllowlistFile("unset", <<>>, <<>>), args |-> <<>>]

\* The runner building the arguments of a container.
LaunchNext ==
  \E additionalMounts \in VolumeMountLists : \E file \in AllowlistFiles :
    \E isMain \in BOOLEAN : \E apiKey \in ApiKeys :
      SpawnArgsBuilt(additionalMounts, isMain, apiKey, file)

MNext ==
  \E mounts \in MountLists : \E isMain \in BOOLEAN : \E file \in AllowlistFiles :
    ValidateCall(mounts, isMain, file)

\* ------------------------------------------------------------------------
\* A container session under the queue: registerProcess, sendMessage,
\* closeContainer, shutdown, and the agent runner's input loop
\* ------------------------------------------------------------------------
\* Number of sendMessage calls in one behaviour.
MaxSends == 1
\* Number of closeContainer calls made on the queue from outside in one behaviour.
MaxCloses == 1

\* The group folder a processing function passes for a group, and the ChildProcess
\* objects spawn returns.
FolderOf(jid) == IF jid = "g1" THEN "f1" ELSE "f2"
FoldersOfJids == {FolderOf(jid) : jid \in Jids}
ProcNames == <<"proc1", "proc2", "proc3", "proc4">>

\* The text argument of sendMessage; "" stands for every falsy text, an absent
\* argument included (JSON.stringify then writes no text property).
Texts == {"hi", ""}

\* An input directory lists its entries in the order they were published: message
\* files by number with the text they carry, and CloseEntry for the empty file _close.
InputFile(n, text) == [file |-> n, text |-> text]
CloseEntry == InputFile(0, "")

\* drainIpcInput(): the files whose text it returns, if (data.text) messages.push(..),
\* and the directory it leaves behind, every .json file unlinked.
Messages(box) == SelectSeq(box, LAMBDA e : e # CloseEntry /\ e.text # "")
Drained(box) == SelectSeq(box, LAMBDA e : e = CloseEntry)

\* shouldClose(): existsSync(join(IPC_INPUT_DIR, '_close'))
shouldClose(box) == \E k \in 1..Len(box) : box[k] = CloseEntry

\* writeCloseSentinel(dir): writeFileSync(join(dir, '_close'), '')
WithCloseSentinel(box) == IF shouldClose(box) THEN box ELSE Append(box, CloseEntry)

\* The messages published before the file _close was.
BeforeClose(box) ==
  IF ~shouldClose(box) THEN <<>>
  ELSE Messages(SubSeq(box, 1, CHOOSE k \in 1..Len(box) : box[k] = CloseEntry))

\* registerProcess(groupJid, proc, containerName, groupFolder)
registerProcess(gs, jid, proc, containerName, groupFolder) ==
  LET gs1 == getGroup(gs, jid)
      k == GroupIndex(gs1, jid)
  IN [gs1 EXCEPT ![k].process = proc, ![k].containerName = containerName,
                 ![k].groupFolder = groupFolder]

\* The guard without its test of group.process.
SendsWithoutProcess(g) == g.groupFolder = "null"

\* sendMessage's guard: !group.process || !group.groupFolder
NoActiveProcess(g) == g.process = "null" \/ g.groupFolder = "null"

\* closeContainer(groupJid): the input directory with the file _close written,
\* if the group's folder is known.
closeContainer(gs, dirs, jid) ==
  LET g == gs[GroupIndex(gs, jid)] IN
  IF g.groupFolder = "null" THEN dirs
  ELSE [dirs EXCEPT ![g.groupFolder] = WithCloseSentinel(@)]

\* The 'for' loops of shutdown visit the groups in Map order.
\* First loop: if (group.process && group.groupFolder) this.closeContainer(group.jid)
RECURSIVE CloseLoop(_, _, _)
CloseLoop(gs, dirs, k) ==
  IF k > Len(gs) THEN dirs
  ELSE CloseLoop(gs,
                 IF gs[k].process # "null" /\ gs[k].groupFolder # "null"
                 THEN closeContainer(gs, dirs, gs[k].jid) ELSE dirs,
                 k + 1)

KillLoopStopsAtThrow(gs, throwers) ==
  {gs[k].process : k \in {j \in 1..Len(gs) :
      /\ gs[j].process # "null"
      /\ \A h \in 1..(j - 1) : gs[h].process \notin throwers}}

\* Second loop: if (group.process) { try { group.process.kill('SIGKILL') } catch {} }
\* The processes kill was called on; the calls on throwers threw.
KillLoop(gs, throwers) ==
  {gs[k].process : k \in {j \in 1..Len(gs) : gs[j].process # "null"}}

\* The process handles the queue holds: group.process of every group that has one.
Handles(gs) == {gs[k].process : k \in {j \in 1..Len(gs) : gs[j].process # "null"}}

sFrame == UNCHANGED <<fsvars, wvars, rvars, mvars, pvars>>

ContainerOf(i) == {c \in 1..Len(containers) : containers[c].item = i}
ProcIndex(proc) == CHOOSE c \in 1..Len(ProcNames) : ProcNames[c] = proc

\* A processing function calls runContainerAgent with an onProcess that registers
\* the process: spawn, then queue.registerProcess(jid, proc, containerName, folder).
SpawnContainer(i) ==
  /\ i \in 1..Len(items)
  /\ items[i].status = "running"
  /\ ContainerOf(i) = {}
  /\ LET c == Len(containers) + 1
         jid == items[i].jid
     IN /\ containers' = Append(containers,
                                [item |-> i, folder |-> FolderOf(jid), state |-> "starting",
                                 reason |-> "", left |-> <<>>])
        /\ groups' = registerProcess(groups, jid, ProcNames[c], ProcNames[c], FolderOf(jid))
  /\ UNCHANGED <<maxConcurrentContainers, processMessagesFn, activeCount, items, dispatched,
                 inbox, sends, closes, shut>>
  /\ sFrame

\* Agent runner, main(): the first prompt takes the pending input messages
\* (drainIpcInput), then the query loop starts.
ContainerStarts(c) ==
  /\ containers[c].state = "starting"
  /\ LET box == inbox[containers[c].folder] IN
     /\ containers' = [containers EXCEPT ![c].state = "querying"]
     /\ inbox' = [inbox EXCEPT ![containers[c].folder] = Drained(box)]
  /\ UNCHANGED <<qvars, sends, closes, shut>>
  /\ sFrame

\* runQuery returned and writeOutput was called: the runner enters waitForIpcMessage.
QueryEnds(c) ==
  /\ containers[c].state = "querying"
  /\ containers' = [containers EXCEPT ![c].state = "waiting"]
  /\ UNCHANGED <<qvars, inbox, sends, closes, shut>>
  /\ sFrame

\* One round of waitForIpcMessage, its first access to the input directory:
\* if (shouldClose()) return null, and the runner exits; otherwise the round goes
\* on to drainIpcInput.
PollInput(c) ==
  /\ containers[c].state = "waiting"
  /\ LET box == inbox[containers[c].folder] IN
     IF shouldClose(box)
     THEN containers' = [containers EXCEPT ![c].state = "exited", ![c].reason = "close",
                                           ![c].left = BeforeClose(box)]
     ELSE containers' = [containers EXCEPT ![c].state = "draining"]
  /\ UNCHANGED <<qvars, inbox, sends, closes, shut>>
  /\ sFrame

\* The round's second access, whatever the host wrote since the first:
\* drainIpcInput unlinks the message files, and their messages, if any, are the
\* next prompt; with none the runner sleeps and the wait goes on.
DrainInput(c) ==
  /\ containers[c].state = "draining"
  /\ LET box == inbox[containers[c].folder] IN
     /\ containers' = [containers EXCEPT ![c].state =
                         IF Messages(box) # <<>> THEN "querying" ELSE "waiting"]
     /\ inbox' = [inbox EXCEPT ![containers[c].folder] = Drained(box)]
  /\ UNCHANGED <<qvars, sends, closes, shut>>
  /\ sFrame

\* The container has closed, runContainerAgent has resolved and the processing
\* function returns true.
ProcessingReturns(i) ==
  /\ i \in 1..Len(items)
  /\ \E c \in ContainerOf(i) : containers[c].state = "exited"
  /\ items[i].status = "running"
  /\ Install(settle([QState EXCEPT !.items[i].returned = <<"value", TRUE>>], i, TRUE, TRUE))
  /\ UNCHANGED <<maxConcurrentContainers, processMessagesFn, svars>>
  /\ sFrame

\* sendMessage(groupJid, text)
sendMessage(jid, text) ==
  /\ Len(sends) < MaxSends
  /\ LET gs == getGroup(groups, jid)
         g == gs[GroupIndex(gs, jid)]
         id == Len(sends) + 1
         stale == /\ g.process # "null"
                  /\ ProcIndex(g.process) <= Len(containers)
                  /\ containers[ProcIndex(g.process)].state = "exited"
                  /\ items[containers[ProcIndex(g.process)].item].status = "resolved"
     IN /\ groups' = gs
        /\ IF NoActiveProcess(g)
           THEN /\ sends' = Append(sends, [jid |-> jid, text |-> text, ret |-> FALSE,
                                           file |-> 0,
                                           process |-> g.process, folder |-> g.groupFolder,
                                           stale |-> stale])
                /\ UNCHANGED inbox
           ELSE /\ inbox' = [inbox EXCEPT ![g.groupFolder] = Append(@, InputFile(id, text))]
                /\ sends' = Append(sends, [jid |-> jid, text |-> text, ret |-> TRUE,
                                           file |-> id,
                                           process |-> g.process, folder |-> g.groupFolder,
                                           stale |-> stale])
  /\ UNCHANGED <<maxConcurrentContainers, processMessagesFn, activeCount, items, dispatched,
                 containers, closes, shut>>
  /\ sFrame

\* closeContainer(groupJid) called on the queue: _getGroup creates the group's
\* record if there is none, and _close is written if the group's folder is known,
\* whether or not a process is registered.
CloseContainerCalled(jid) ==
  /\ Len(closes) < MaxCloses
  /\ LET gs == getGroup(groups, jid)
         g == gs[GroupIndex(gs, jid)]
     IN /\ groups' = gs
        /\ inbox' = closeContainer(gs, inbox, jid)
        /\ closes' = Append(closes, [jid |-> jid, process |-> g.process,
                                     folder |-> g.groupFolder])
  /\ UNCHANGED <<maxConcurrentContainers, processMessagesFn, activeCount, items, dispatched,
                 containers, sends, shut>>
  /\ sFrame

\* shutdown(gracePeriodMs) up to its await: closeContainer for the groups with a process.
ShutdownSignals ==
  /\ shut.phase = "idle"
  /\ LET dirs == CloseLoop(groups, inbox, 1) IN
     /\ inbox' = dirs
     /\ shut' = [shut EXCEPT !.phase = "waiting",
                             !.handlesAtCall = Handles(groups)]
  /\ UNCHANGED <<qvars, containers, sends, closes>>
  /\ sFrame

\* shutdown after the grace period: SIGKILL for the groups with a process; the kill
\* calls on the processes in throwers throw. shutdown then returns.
ShutdownKills(throwers) ==
  /\ shut.phase = "waiting"
  /\ LET killed == KillLoop(groups, throwers) IN
     /\ containers' = [c \in 1..Len(containers) |->
                         IF /\ ProcNames[c] \in killed \ throwers
                            /\ containers[c].state # "exited"
                         THEN [containers[c] EXCEPT !.state = "exited", !.reason = "killed"]
                         ELSE containers[c]]
     /\ shut' = [shut EXCEPT !.phase = "returned", !.killed = killed,
                             !.threw = throwers \cap killed,
                             !.handlesAtKill = Handles(groups)]
  /\ UNCHANGED <<qvars, inbox, sends, closes>>
  /\ sFrame

SInit ==
  /\ containers = <<>>
  /\ inbox = [f \in FoldersOfJids |-> <<>>]
  /\ sends = <<>>
  /\ closes = <<>>
  /\ shut = [phase |-> "idle", killed |-> {}, threw |-> {},
             handlesAtCall |-> {}, handlesAtKill |-> {}]

\* The queue of a host whose processing functions run containers: the message
\* processing function is set and the cap is the largest one.
InitSession ==
  /\ maxConcurrentContainers = MaxCap
  /\ processMessagesFn = TRUE
  /\ groups = <<>>
  /\ activeCount = 0
  /\ items = <<>>
  /\ dispatched = <<>>
  /\ FsInit /\ WInit /\ RInit /\ MInit /\ SInit /\ PInit

SessionNext ==
  \/ \E jid \in Jids : enqueueMessageCheck(jid)
  \/ \E jid \in Jids : enqueueTask(jid)
  \/ \E i \in 1..Len(items) : SpawnContainer(i)
  \/ \E c \in 1..Len(containers) : ContainerStarts(c)
  \/ \E c \in 1..Len(containers) : QueryEnds(c)
  \/ \E c \in 1..Len(containers) : PollInput(c)
  \/ \E c \in 1..Len(containers) : DrainInput(c)
  \/ \E i \in 1..Len(items) : ProcessingReturns(i)
  \/ \E jid \in Jids : \E text \in Texts : sendMessage(jid, text)
  \/ \E jid \in Jids : CloseContainerCalled(jid)
  \/ ShutdownSignals
  \/ \E throwers \in {{}} \cup {{ProcNames[c]} : c \in 1..Len(containers)} :
       ShutdownKills(throwers)

\* A session whose host sends messages and whose containers end on the _close of
\* a shutdown that is still in its grace period; the containers are those of
\* message checks.
SessionSendNext ==
  \/ \E jid \in Jids : enqueueMessageCheck(jid)
  \/ \E i \in 1..Len(items) : SpawnContainer(i)
  \/ \E c \in 1..Len(containers) : ContainerStarts(c)
  \/ \E c \in 1..Len(containers) : QueryEnds(c)
  \/ \E c \in 1..Len(containers) : PollInput(c)
  \/ \E c \in 1..Len(containers) : DrainInput(c)
  \/ \E i \in 1..Len(items) : ProcessingReturns(i)
  \/ \E jid \in Jids : \E text \in Texts : sendMessage(jid, text)
  \/ ShutdownSignals

\* A session whose host sends no message: the containers, those of message
\* checks, are closed by closeContainer and by shutdown, which runs to its end.
SessionShutdownNext ==
  \/ \E jid \in Jids : enqueueMessageCheck(jid)
  \/ \E i \in 1..Len(items) : SpawnContainer(i)
  \/ \E c \in 1..Len(containers) : ContainerStarts(c)
  \/ \E c \in 1..Len(containers) : QueryEnds(c)
  \/ \E c \in 1..Len(containers) : PollInput(c)
  \/ \E c \in 1..Len(containers) : DrainInput(c)
  \/ \E i \in 1..Len(items) : ProcessingReturns(i)
  \/ \E jid \in Jids : CloseContainerCalled(jid)
  \/ ShutdownSignals
  \/ \E throwers \in {{}} \cup {{ProcNames[c]} : c \in 1..Len(containers)} :
       ShutdownKills(throwers)

\* A burst of enqueues: up to MaxQueued items, for processing functions that fulfil.
MaxQueued == 4

EnqueueInBurst(jid, fn) ==
  /\ Len(items) < MaxQueued
  /\ Install(Enqueued(jid, fn))
  /\ UNCHANGED <<maxConcurrentContainers, processMessagesFn, fsvars, wvars, xvars>>

QBurstNext ==
  \/ \E jid \in Jids : \E fn \in BOOLEAN : EnqueueInBurst(jid, fn)
  \/ \E i \in 1..Len(items) : FnSucceeds(i, TRUE)

QInit ==
  /\ maxConcurrentContainers \in 1..MaxCap
  /\ processMessagesFn = FALSE
  /\ groups = <<>>
  /\ activeCount = 0
  /\ items = <<>>
  /\ dispatched = <<>>

Next ==
  \/ setProcessMessagesFn
  \/ \E jid \in Jids : enqueueMessageCheck(jid)
  \/ \E jid \in Jids : enqueueTask(jid)
  \/ \E i \in 1..Len(items) : \E r \in BOOLEAN : FnSucceeds(i, r)
  \/ \E i \in 1..Len(items) : \E nullish \in BOOLEAN : FnFails(i, nullish)
  \/ \E i \in 1..Len(items) : RetryTimerFires(i)

Init == QInit /\ FsInit /\ WInit /\ RInit /\ MInit /\ SInit /\ PInit

\* The queue is not used by the IPC file operations: one default configuration.
InitIpc == Init /\ maxConcurrentContainers = 1

Spec == Init /\ [][Next]_vars

\* The queue with the message processing function set, under a burst of enqueues.
InitQueueBurst ==
  /\ maxConcurrentContainers \in 1..MaxCap
  /\ processMessagesFn = TRUE
  /\ groups = <<>>
  /\ activeCount = 0
  /\ items = <<>>
  /\ dispatched = <<>>
  /\ FsInit /\ WInit /\ RInit /\ MInit /\ SInit /\ PInit

SpecQueueBurst == InitQueueBurst /\ [][QBurstNext]_vars

SpecIpc == InitIpc /\ [][FsNext]_vars

SpecIpcDamaged == InitIpc /\ [][FsDamagedNext]_vars

SpecWatcher == InitIpc /\ [][WNext]_vars

SpecWatcherDeletes == InitIpc /\ [][WDeletesNext]_vars

SpecWatcherBurst == InitIpc /\ [][WBurstNext]_vars

SpecWatchers == InitIpc /\ [][WatchersNext]_vars

SpecRunner == InitIpc /\ [][RNext]_vars

SpecRunnerDamaged == InitIpc /\ [][RDamagedNext]_vars

SpecLaunch == InitIpc /\ [][LaunchNext]_vars

SpecMounts == InitIpc /\ [][MNext]_vars

SpecSession == InitSession /\ [][SessionNext]_vars

SpecSessionSend == InitSession /\ [][SessionSendNext]_vars

SpecSessionShutdown == InitSession /\ [][SessionShutdownNext]_vars

\* ------------------------------------------------------------------------
\* Properties of GroupQueue
\* ------------------------------------------------------------------------
ItemIds == 1..Len(items)
Running(i) == items[i].status = "running"
InFlight(i) == items[i].status \in {"running", "backoff"}
Done(i) == items[i].status \in {"resolved", "rejected"}
Before(i, j) == \E m, n \in 1..Len(dispatched) :
                  m < n /\ dispatched[m] = i /\ dispatched[n] = j
Dispatched(i) == \E m \in 1..Len(dispatched) : dispatched[m] = i
ProcessingGroups == {k \in 1..Len(groups) : groups[k].processing}
RetrySchedule == <<5000, 10000, 20000, 40000, 80000>>

\* C1: for every group, at most one of its work items is executing (its processing
\* function started and not yet settled), retried attempts included.
C1_OneExecutingPerGroup ==
  \A jid \in Jids : Cardinality({i \in ItemIds : Running(i) /\ items[i].jid = jid}) <= 1

\* C2: _activeCount equals the number of groups whose processing flag is true.
C2_ActiveCountIsProcessingCount == activeCount = Cardinality(ProcessingGroups)

\* C3: the queue never deadlocks: a group with waiting items is never left with its
\* slot held by no item in flight, where no future completion can release the slot
\* and the waiting items can never be dispatched.
C3_NeverDeadlocks ==
  \A k \in 1..Len(groups) :
    (groups[k].queue # <<>> /\ groups[k].processing)
      => \E i \in ItemIds : InFlight(i) /\ items[i].jid = groups[k].jid

\* C4: the number of executing work items, over all groups and counting retried
\* attempts, is at most maxConcurrentContainers.
C4_ExecutingWithinCap ==
  Cardinality({i \in ItemIds : Running(i)}) <= maxConcurrentContainers

\* C5: _activeCount is at most maxConcurrentContainers in every reachable state.
C5_ActiveCountWithinCap == activeCount <= maxConcurrentContainers

\* C5's case: the counter is at the cap while a group with waiting work is idle.
C5_Witness ==
  /\ activeCount = maxConcurrentContainers
  /\ \E k \in 1..Len(groups) : Runnable(groups[k])

\* The item's latest attempt failed and no attempt has been started since.
FailedLast(it) == it.status \in {"backoff", "rejected", "stuck"}

\* What C7 says of one item: its timers follow the schedule 5s, 10s, 20s, 40s, 80s,
\* one timer per failed attempt and one invocation per timer, at most six
\* invocations; a failed attempt before attempt 5 leaves it waiting for its
\* timer; it is rejected by the failure of attempt 5 and only by it, with that
\* attempt's error and no further timer; it is fulfilled with the boolean the
\* function returned; and an item that runs or waits for a retry has not settled.
C7_ItemOk(it) ==
  /\ it.calls <= MAX_RETRIES + 1
  /\ it.delays = SubSeq(RetrySchedule, 1, Len(it.delays))
  /\ it.status = "queued" => it.calls = 0 /\ it.delays = <<>>
  /\ it.status # "queued" => it.calls = it.attempt + 1
  /\ it.status \in {"running", "resolved"} => Len(it.delays) = it.attempt
  /\ it.status = "backoff" => it.attempt < MAX_RETRIES /\ Len(it.delays) = it.attempt + 1
  /\ it.status \in {"running", "backoff"} => it.resolveCalls = 0 /\ it.rejectCalls = 0
  /\ it.status = "rejected" =>
       /\ it.attempt = MAX_RETRIES /\ Len(it.delays) = MAX_RETRIES
       /\ it.value \in {AttemptError(MAX_RETRIES), NoFnError}
       /\ it.value = NoFnError => ~it.fn
  /\ it.status = "resolved" =>
       it.value = it.returned /\ it.value \in {<<"value", TRUE>>, <<"value", FALSE>>}
  /\ FailedLast(it) =>
       it.status = (IF it.attempt < MAX_RETRIES THEN "backoff" ELSE "rejected")

\* C7: a failed attempt k < 5 is retried exactly once after 5000 * 2^k ms; an item is
\* attempted at most 6 times; the failure of attempt 5 rejects the promise with that
\* error and sets no timer; a success fulfils it with the returned boolean and ends
\* the attempts.
C7_RetrySchedule == \A i \in ItemIds : C7_ItemOk(items[i])

\* C8: a task enqueued for a group after message-checks of that group starts before
\* each of them; the message-checks start in their enqueue order; and after the
\* task has settled the waiting message-checks are not shut out of the group's slot.
C8_TaskBeforeEarlierChecks ==
  \A t, c \in ItemIds :
    (items[t].jid = items[c].jid /\ ~items[c].fn /\ c < t) =>
      /\ items[t].fn => ~(Dispatched(c) /\ ~Dispatched(t)) /\ ~Before(c, t)
      /\ ~items[t].fn => ~Before(t, c)
      /\ (items[t].fn /\ Done(t) /\ items[c].status = "queued") =>
           \/ ~groups[GroupIndex(groups, items[t].jid)].processing
           \/ \E i \in ItemIds : InFlight(i) /\ items[i].jid = items[t].jid

\* C9: the completion sink of an item fires exactly once over the item's lifetime:
\* no call while the item waits, runs or backs off, and exactly one call, of
\* resolve or of reject and never of both, once its attempts have ended.
C9_SinkFiresOnce ==
  \A i \in ItemIds :
    /\ items[i].status \in {"queued", "running", "backoff"}
         => items[i].resolveCalls = 0 /\ items[i].rejectCalls = 0
    /\ items[i].status = "stuck" => items[i].resolveCalls + items[i].rejectCalls = 1
    /\ items[i].status = "resolved" => items[i].resolveCalls = 1 /\ items[i].rejectCalls = 0
    /\ items[i].status = "rejected" => items[i].resolveCalls = 0 /\ items[i].rejectCalls = 1

GroupOf(i) == groups[GroupIndex(groups, items[i].jid)]
OthersInFlight(i) == {j \in ItemIds \ {i} : InFlight(j) /\ items[j].jid = items[i].jid}

\* C26: once a task item has reached its terminal outcome its group's slot has been
\* released: the group is processing, and counted in _activeCount, only for
\* another item of the group that was dispatched since.
C26_TaskReleasesSlot ==
  \A i \in ItemIds :
    (items[i].fn /\ Done(i)) =>
      /\ GroupOf(i).processing => OthersInFlight(i) # {}
      /\ activeCount <= Cardinality({j \in ItemIds : InFlight(j)})

\* C27: while an item waits for its retry timer its group's slot is held: the
\* group is processing, _activeCount counts it, and no other item of the group
\* is in flight; for message-check items as for task items.
C27_SlotHeldDuringBackoff ==
  \A i \in ItemIds :
    items[i].status = "backoff" =>
      /\ GroupOf(i).processing
      /\ activeCount >= 1
      /\ OthersInFlight(i) = {}

\* The order C22 gives two items of one group that are pending together: a task
\* before a message-check, the later task first, the earlier message-check first.
\* Item identities ascend in enqueue order.
GoesBefore(its, a, b) ==
  \/ its[a].fn /\ ~its[b].fn
  \/ its[a].fn /\ its[b].fn /\ a > b
  \/ ~its[a].fn /\ ~its[b].fn /\ a < b

\* Every queue holds its tasks first, latest first, then its message-checks,
\* earliest first.
C22_QueuesInOrder ==
  \A k \in 1..Len(groups) : \A m, n \in 1..Len(groups[k].queue) :
    m < n => GoesBefore(items, groups[k].queue[m], groups[k].queue[n])

\* An item dispatched in a step goes before every item of its group that was
\* pending with it: those still queued after the step, and those the step
\* dispatched after it.
C22_DispatchInOrder ==
  \A m \in (Len(dispatched) + 1)..Len(dispatched') :
    LET a == dispatched'[m]
        g == groups'[GroupIndex(groups', items'[a].jid)]
    IN /\ \A n \in 1..Len(g.queue) : GoesBefore(items', a, g.queue[n])
       /\ \A n \in (m + 1)..Len(dispatched') :
            items'[dispatched'[n]].jid = items'[a].jid
              => GoesBefore(items', a, dispatched'[n])

\* C22: among the items pending in one group's queue, message-checks are dispatched
\* in enqueue order, tasks in reverse enqueue order, and every pending task before
\* any pending message-check.
C22_PendingOrder == [](C22_QueuesInOrder) /\ [][C22_DispatchInOrder]_vars

\* C22's case: a task was dispatched while an earlier task and an earlier
\* message-check of its group, pending with it, are still waiting.
C22_Witness ==
  \E t, u, c \in ItemIds :
    /\ items[t].jid = items[c].jid /\ items[u].jid = items[c].jid
    /\ items[t].fn /\ items[u].fn /\ ~items[c].fn
    /\ u < t /\ c < t
    /\ Dispatched(t)
    /\ items[u].status = "queued" /\ items[c].status = "queued"

\* C33: between the queue's method calls, whenever the counter is below the cap
\* no group has a waiting item while it is not processing: every release of a
\* slot and every enqueue is followed by the one dispatch it makes possible.
C33_NoLostWakeup ==
  activeCount < maxConcurrentContainers =>
    \A k \in 1..Len(groups) : ~(groups[k].queue # <<>> /\ ~groups[k].processing)

\* C33's case: with a cap of one, an item that waited for the slot of another
\* group's item was dispatched when that item settled and released the slot.
C33_Witness ==
  /\ maxConcurrentContainers = 1
  /\ dispatched = <<1, 2>>
  /\ items[1].jid # items[2].jid
  /\ items[1].status = "resolved" /\ items[2].status = "running"
  /\ items[2].calls = 1

\* ------------------------------------------------------------------------
\* Properties of the IPC files
\* ------------------------------------------------------------------------
IsTmp(name) == \E n \in 1..MaxWrites : name = TmpName(n)
Ascending(names) == \A m, n \in 1..Len(names) : m < n => NameLess(names[m], names[n])
ResultNames == [k \in 1..Len(drainer.results) |-> drainer.results[k].filename]
Held(name, data) ==
  \/ <<name, data>> \in returned
  \/ \E k \in 1..Len(drainer.results) :
       drainer.results[k] = [data |-> data, filename |-> name]

\* C10: a drain running concurrently with writeIpcFile never observes a partial
\* write: every content it reads, and every entry it holds or returns, is the
\* complete JSON of the data one writeIpcFile call was given for that name, and
\* it reads and deletes no temp file.
C10_NoPartialRead ==
  /\ \A e \in readLog : /\ ~IsTmp(e[1])
                        /\ e[1] \in DOMAIN written /\ e[2] = Stringify(written[e[1]])
  /\ \A name \in unlinkLog : ~IsTmp(name) /\ name \in DOMAIN written
  /\ \A k \in 1..Len(drainer.results) :
       /\ drainer.results[k].filename \in DOMAIN written
       /\ drainer.results[k].data = written[drainer.results[k].filename]
  /\ \A e \in returned : e[1] \in DOMAIN written /\ e[2] = written[e[1]]

\* C10's case: a drain listed the directory while a temp file held a partial write,
\* and has gone past it to read a published file.
C10_Witness ==
  /\ drainer.pc = "unlink"
  /\ \E k \in 1..Len(drainer.entries) :
       /\ k < drainer.idx /\ IsTmp(drainer.entries[k])
       /\ drainer.entries[k] \in DOMAIN files
       /\ ~Parses(files[drainer.entries[k]])

\* C25: the entries a drain has collected, which are the entries it returns, are in
\* ascending order of filename, whatever files the directory listing held.
C25_DrainAscending == Ascending(ResultNames)

\* C25's case: a drain holds two entries, of files published in any order, from
\* a listing that also named the file _close.
C25_Witness ==
  /\ Len(drainer.results) = 2
  /\ \E k \in 1..Len(drainer.entries) : drainer.entries[k] = CloseName

\* C30: a file whose content does not parse is neither returned nor deleted and
\* stays as it is for the next drain; a file that was read and parsed is returned,
\* also when deleting it failed; and the drain has read every accepted file of its
\* listing up to its position, the ones after a failure included.
C30_DrainFailures ==
  /\ \A e \in readLog :
       IF Parses(e[2])
       THEN Held(e[1], Parse(e[2]))
       ELSE /\ e[1] \in DOMAIN files /\ files[e[1]] = e[2]
            /\ e[1] \notin unlinkLog
            /\ \A d \in Data : ~Held(e[1], d)
  /\ drainer.pc # "idle" =>
       \A k \in 1..(drainer.idx - 1) :
         Accepts(drainer.entries[k]) => \E e \in readLog : e[1] = drainer.entries[k]

\* C30's case: the drain met the file it cannot parse, went on, and returned a
\* later file whose deletion failed.
C30_Witness ==
  /\ \E e \in readLog : e[1] = BadName
  /\ \E e \in returned : /\ NameLess(BadName, e[1])
                          /\ e[1] \in unlinkLog /\ e[1] \in DOMAIN files

\* ------------------------------------------------------------------------
\* Properties of the watcher
\* ------------------------------------------------------------------------
\* C6: an entry drained from the messages mailbox of a folder that is not the main
\* group never causes deps.sendMessage to be called with a jid other than the jid
\* of the group registered for that folder; a folder with no registered group has
\* no jid of its own and causes no call.
C6_NonMainSendsOnlyToOwnJid ==
  \A c \in 1..Len(sendCalls) :
    ~(sendCalls[c].folder = "main" /\ sendCalls[c].own # {})
      => sendCalls[c].jid \in sendCalls[c].own

\* The collaborator calls made for one mailbox: the filenames, in call order.
CallNames(calls, f) ==
  LET own == SelectSeq(calls, LAMBDA c : c.folder = f)
  IN [k \in 1..Len(own) |-> own[k].filename]

\* C21: for each mailbox, the collaborator is invoked for entries in ascending
\* filename order (filenames ascend in publication order), within one tick and
\* across ticks, overlapping ticks included.
C21_DispatchAscending ==
  \A f \in DOMAIN mail : /\ Ascending(CallNames(sendCalls, f))
                         /\ Ascending(CallNames(taskCalls, f))

\* The registered group of the folder a tick is at, 0 if the folder has none.
GroupAt(tk) == FindGroup(tk.groups, Folders[tk.fi])

\* C28: a tick drains and dispatches only the mailboxes of folders that have a
\* registered group: the entries it holds and the calls it made are for a folder
\* that getRegisteredGroups() named.
C28_OnlyRegisteredFolders ==
  /\ \A t \in 1..Len(ticks) :
       (ticks[t].pc = "await" \/ ticks[t].list # <<>>) => GroupAt(ticks[t]) # 0
  /\ \A c \in 1..Len(sendCalls) : sendCalls[c].own # {}

\* The file moveToErrors writes for a call: under the call's mailbox, with the
\* entry's filename and content.
InErrors(box, call) ==
  \E e \in errorsDir :
    /\ e[1] = call.folder /\ e[2] = box /\ e[3] = call.filename
    /\ IF box = "messages" THEN e[4].text = call.text ELSE e[4].type = call.type

\* An entry of a tick's list for which the tick calls the collaborator.
Dispatchable(tk, j) ==
  IF tk.box = "messages"
  THEN MessageRoute(tk.groups, Folders[tk.fi], tk.list[j].data).kind = "send"
  ELSE tk.list[j].data.type # ""

\* What C24 says of a step: startIpcWatcher sets the ticker and starts a tick at
\* once; any other tick starts while the ticker is set, so none after stop();
\* stop() leaves the ticks in flight as they are.
C24_StepOk ==
  /\ Len(ticks') \in {Len(ticks), Len(ticks) + 1}
  /\ (pollHandle = "null" /\ pollHandle' = "set") => Len(ticks') = Len(ticks) + 1
  /\ Len(ticks') > Len(ticks) => pollHandle' = "set"
  /\ (pollHandle = "set" /\ pollHandle' = "null") =>
       ticks' = ticks /\ sendCalls' = sendCalls /\ taskCalls' = taskCalls

\* What C24 says of a tick in flight after stop(): it runs to completion, so it
\* ends only in the last mailbox of the last directory, with no entry of its list
\* left that it dispatches.
C24_RunsOn ==
  pollHandle = "null" =>
    \A t \in 1..Len(ticks) :
      (ticks[t].pc # "done" /\ ticks'[t].pc = "done") =>
        /\ ticks[t].fi = Len(Folders) /\ ticks[t].box = "tasks"
        /\ \A j \in (ticks[t].k + 1)..Len(ticks[t].list) : ~Dispatchable(ticks[t], j)

\* C24: startIpcWatcher runs one tick at once and then one each time the interval
\* fires; after stop() no new tick starts, stop() does not touch a tick in flight,
\* and a tick in flight runs to completion: its remaining entries are dispatched.
C24_StartAndStop == [][C24_StepOk /\ C24_RunsOn]_vars

\* The call tick t made for entry j of the list it holds.
CallOf(t, j) ==
  LET tk == ticks[t]
      calls == IF tk.box = "messages" THEN sendCalls ELSE taskCalls
  IN {n \in 1..Len(calls) : /\ calls[n].tick = t
                             /\ calls[n].folder = Folders[tk.fi]
                             /\ calls[n].filename = tk.list[j].filename}

\* The calls made for one published file: those of a mailbox with its filename.
CallsFor(calls, f, filename) ==
  {n \in 1..Len(calls) : calls[n].folder = f /\ calls[n].filename = filename}

\* A file has two calls only if a drain that returned it failed to delete it.
OncePerDeletion(calls, box) ==
  \A a, b \in 1..Len(calls) :
    (a < b /\ calls[a].folder = calls[b].folder /\ calls[a].filename = calls[b].filename)
      => <<calls[a].folder, box, calls[a].filename>> \in unlinkFailed

\* C29: a rejected call leaves the entry under errors/ of its mailbox, and only
\* a rejected call does; the tick goes on after it, so that while it awaits an
\* entry every earlier entry of the list it dispatches has been called and has
\* settled; an entry is not dispatched twice unless a drain failed to delete its
\* file, and one under errors/ whose file was deleted is not in its mailbox.
C29_RejectionHandled ==
  /\ \A c \in 1..Len(sendCalls) :
       sendCalls[c].outcome = "rejected" <=> InErrors("messages", sendCalls[c])
  /\ \A c \in 1..Len(taskCalls) :
       taskCalls[c].outcome = "rejected" <=> InErrors("tasks", taskCalls[c])
  /\ \A e \in errorsDir :
       LET calls == IF e[2] = "messages" THEN sendCalls ELSE taskCalls IN
       /\ e[3] \in DOMAIN mail[e[1]][e[2]] => <<e[1], e[2], e[3]>> \in unlinkFailed
       /\ \E c \in CallsFor(calls, e[1], e[3]) : calls[c].outcome = "rejected"
  /\ \A t \in 1..Len(ticks) :
       ticks[t].pc = "await" =>
         LET tk == ticks[t]
             calls == IF tk.box = "messages" THEN sendCalls ELSE taskCalls
         IN /\ \A j \in 1..(tk.k - 1) :
                 Dispatchable(tk, j) =>
                   \E n \in CallOf(t, j) : calls[n].outcome # "pending"
            /\ \E n \in CallOf(t, tk.k) : calls[n].outcome = "pending"
  /\ OncePerDeletion(sendCalls, "messages") /\ OncePerDeletion(taskCalls, "tasks")

\* The ticks that hold a drained entry they have not gone past.
Holders(f, box, filename) ==
  {t \in 1..Len(ticks) :
     /\ ticks[t].pc = "await" /\ Folders[ticks[t].fi] = f /\ ticks[t].box = box
     /\ \E j \in ticks[t].k..Len(ticks[t].list) : ticks[t].list[j].filename = filename}

\* C35: a published entry is passed to sendMessage or onTask at most once, also
\* when ticks overlap, given that deleting its file succeeds: unless a drain
\* failed to delete the file, it has no two calls, it has no call while it is
\* still in its mailbox, and no two ticks hold its entry.
C35_DispatchedAtMostOnce ==
  /\ OncePerDeletion(sendCalls, "messages") /\ OncePerDeletion(taskCalls, "tasks")
  /\ \A f \in DOMAIN mail : \A n \in 1..published : \A box \in Boxes :
       <<f, box, FinalName(n)>> \notin unlinkFailed =>
         /\ FinalName(n) \in DOMAIN mail[f][box] =>
              CallsFor(IF box = "messages" THEN sendCalls ELSE taskCalls,
                       f, FinalName(n)) = {}
         /\ Cardinality(Holders(f, box, FinalName(n))) <= 1

\* C35's case: a poll started while an earlier one was awaiting its collaborator
\* call, and both now await a call, each for its own entry, the files of both
\* deleted by the drains that returned them.
C35_Witness ==
  /\ Len(ticks) >= 2
  /\ ticks[1].pc = "await" /\ ticks[2].pc = "await"
  /\ Len(sendCalls) + Len(taskCalls) = 2
  /\ unlinkFailed = {}

\* C39: the stop() a startIpcWatcher call returned cancels the timer of that call
\* and no other: a call's timer is alive exactly as long as its stop() has not
\* been called.
C39_StopCancelsOwnTicker ==
  \A w \in 1..watchers.started : w \in watchers.stopped <=> w \notin watchers.timers

\* ------------------------------------------------------------------------
\* Properties of the container runner
\* ------------------------------------------------------------------------
IsPrefix(a, b) == Len(a) <= Len(b) /\ SubSeq(b, 1, Len(a)) = a
TimeoutMessage == <<"Container timed out after ", "containerTimeout", "ms">>
Unsettled == {k \in 1..Len(outCalls) : ~outCalls[k].settled}
CalledWith == [k \in 1..Len(outCalls) |-> outCalls[k].out]

\* C11: whatever the payloads and however stdout is split into chunks, the outputs
\* parsed so far are the outputs written so far, in order and once each: a prefix of
\* them at any time, and all of them once the whole stream has been delivered.
C11_ParserYieldsWritten ==
  /\ IsPrefix(parsed, wrote)
  /\ pipe = <<>> => parsed = wrote

\* C12: at most one onOutput call is unsettled at any time, and the outputs are
\* passed to onOutput in the order they were parsed from stdout.
C12_OnOutputSerialInOrder ==
  /\ Cardinality(Unsettled) <= 1
  /\ IsPrefix(CalledWith, parsed)

\* C13: the value resolve() is given at 'close' follows the precedence timed out,
\* last output, exit code 0, other exit code; the promise settles at most once, has
\* settled once 'close' was handled, and is rejected only when the spawn failed.
C13_CloseResolution ==
  /\ promise.settles <= 1
  /\ promise.state = "rejected" => spawned = "failed"
  /\ promise.closed =>
       LET a == promise.atClose IN
       /\ promise.settles = 1
       /\ promise.state = "resolved" => promise.value = a.arg
       /\ a.timedOut => a.arg.status = "error" /\ a.arg.error = TimeoutMessage
       /\ ~a.timedOut /\ a.lastOutput # NoOutput => a.arg = a.lastOutput
       /\ ~a.timedOut /\ a.lastOutput = NoOutput /\ a.code = 0 =>
            a.arg = [status |-> "success", result |-> <<>>, newSessionId |-> "",
                     error |-> <<>>]
       /\ ~a.timedOut /\ a.lastOutput = NoOutput /\ a.code # 0 =>
            /\ a.arg.status = "error" /\ a.arg.result = <<>>
            /\ a.arg.error = <<"Container exited with code ", CodeText(a.code)>>

\* C13's case: 'close' was handled after the idle timer fired and an output was
\* parsed, and the run resolved with the timeout error.
C13_Witness ==
  /\ promise.closed /\ promise.state = "resolved"
  /\ promise.atClose.timedOut /\ promise.atClose.lastOutput # NoOutput
  /\ promise.value.error = TimeoutMessage

\* C14: once the idle timer has fired a stop was issued (a kill only for a failed
\* stop), and the run's final resolution is the timeout error carrying the last
\* output's result and newSessionId.
C14_TimeoutResolution ==
  /\ fired # {} => killer.stops >= 1 /\ killer.kills <= killer.stops
  /\ fired # {} /\ promise.state # "pending" =>
       /\ promise.state = "resolved"
       /\ promise.value.status = "error"
       /\ promise.value.error = TimeoutMessage
       /\ promise.value.result = promise.atClose.lastOutput.result
       /\ promise.value.newSessionId = promise.atClose.lastOutput.newSessionId

\* C20: onProcess is invoked only for a container process that was spawned.
C20_OnProcessOnlyAfterSpawn == onProcessCalls > 0 => spawned = "ok"

\* C34: a run whose container closed without a timeout after at least one frame
\* was parsed resolved with the last frame parsed from stdout, and while it runs
\* lastOutput is the last frame parsed unless a 'data' handler still holds frames
\* it has not recorded.
C34_ResolvesWithLastFrame ==
  /\ (promise.closed /\ ~promise.atClose.timedOut /\ parsed # <<>>) =>
       promise.value = parsed[Len(parsed)]
  /\ (handlers = <<>> /\ parsed # <<>>) => lastOutput = parsed[Len(parsed)]

\* The output parseContainerOutput is to yield for a written frame.
ExpectedOutput(w) ==
  IF w.status = "damaged"
  THEN [status |-> "error", result |-> <<>>, newSessionId |-> "",
        error |-> <<"Failed to parse output: ">> \o
                  (IF w.result = LongPayload THEN <<"{", "x*100", "y*99">> ELSE w.result)]
  ELSE w

\* C31: a complete frame whose payload is not JSON yields one synthetic error
\* output naming the payload, at the frame's position among the outputs; the
\* frames after it are parsed and returned in order, and nothing up to an end
\* marker stays in the buffer.
C31_DamagedFrameYieldsError ==
  /\ Len(parsed) <= Len(wrote)
  /\ \A k \in 1..Len(parsed) : parsed[k] = ExpectedOutput(wrote[k])
  /\ pipe = <<>> => Len(parsed) = Len(wrote)
  /\ IndexOf(stdoutBuffer, OUTPUT_END_MARKER, 1) = 0

\* C31's case: one parseContainerOutput call returned the synthetic output of a
\* damaged frame of more than 200 characters, followed by the output of the frame
\* written after it.
C31_Witness ==
  /\ Len(wrote) = 2 /\ wrote[1] = Damaged(LongPayload) /\ wrote[2] = OutOk
  /\ \E h \in 1..Len(handlers) :
       handlers[h].outs = <<ExpectedOutput(wrote[1]), OutOk>>

\* ------------------------------------------------------------------------
\* Properties of the mount validator
\* ------------------------------------------------------------------------
NoAllowlist(file) == file.kind \in NoAllowlistKinds

\* C15 as stated: with no allowlist available the validator never returns
\* valid: true, whatever mounts it is given.
C15_NoAllowlistNeverValid ==
  mountCall.called /\ NoAllowlist(mountCall.file) => ~mountCall.result.valid

\* C15, amended: with no allowlist available the validator returns valid: false
\* with one error for every non-empty list of mounts; for an absent or empty list
\* it returns valid: true with no errors.
C15_NoAllowlistBlocksMounts ==
  mountCall.called /\ NoAllowlist(mountCall.file) =>
    IF mountCall.mounts = <<>>
    THEN mountCall.result = [valid |-> TRUE, errors |-> <<>>]
    ELSE ~mountCall.result.valid /\ Len(mountCall.result.errors) = 1

\* C15's case: mounts that an allowlist would accept, validated while the allowlist
\* file cannot be read as JSON.
C15_Witness ==
  /\ mountCall.called
  /\ mountCall.file.kind = "invalidJson"
  /\ mountCall.mounts = <<Mount(PathTmp, CPathOk)>>
  /\ ~mountCall.result.valid

\* The blocked substrings a resolved host path contains, case-insensitively: the
\* built-in ones and the entries of the allowlist's blocked_patterns.
BlockedIn(path, allowlist) ==
  LET all == DEFAULT_BLOCKED_PATTERNS \o allowlist.blocked_patterns
  IN {all[k] : k \in {n \in 1..Len(all) : all[n] # <<>> /\
                        Includes(ToLowerCase(path), ToLowerCase(all[n]))}}
PathAccepted(cpath) == ~Includes(cpath, <<"..">>) /\ StartsWithPath(cpath, <<"/">>)

\* C23: with an allowlist loaded, a mount whose resolved host path contains a
\* built-in blocked substring or an entry of blocked_patterns makes the result
\* valid: false, and, its container path being acceptable, one of the errors
\* names a blocked pattern the path contains; allowed roots make no difference.
C23_BlockedPathRejected ==
  mountCall.called /\ AllowlistLoads(mountCall.file) =>
    \A k \in 1..Len(mountCall.mounts) :
      LET m == mountCall.mounts[k]
          hit == BlockedIn(Realpath(m.host_path), loadMountAllowlist(mountCall.file))
      IN (~RealpathThrows(m.host_path) /\ hit # {}) =>
           /\ ~mountCall.result.valid
           /\ PathAccepted(m.container_path) =>
                \E e \in 1..Len(mountCall.result.errors) :
                  /\ mountCall.result.errors[e].kind = "Path matches blocked pattern"
                  /\ mountCall.result.errors[e].detail \in hit

\* C32: the result of a validation is the result of the same validation with the
\* other value of isMain, for the list (valid flag and errors) and for each mount
\* of it against the loaded allowlist.
C32_IsMainMakesNoDifference ==
  mountCall.called =>
    /\ mountCall.result =
         validateAdditionalMounts(mountCall.mounts, ~mountCall.isMain, mountCall.file)
    /\ AllowlistLoads(mountCall.file) =>
         \A k \in 1..Len(mountCall.mounts) :
           validateMount(mountCall.mounts[k], TRUE, loadMountAllowlist(mountCall.file))
             = validateMount(mountCall.mounts[k], FALSE, loadMountAllowlist(mountCall.file))

\* C32's case: the main group's mount outside every allowed root is rejected, as
\* any group's is.
C32_Witness ==
  /\ mountCall.called /\ mountCall.isMain
  /\ mountCall.file = AllowlistFile("ok", << HomeU >>, <<>>)
  /\ mountCall.mounts = <<Mount(PathTmp, CPathOk)>>
  /\ mountCall.result.errors =
       <<[kind |-> "Path not under any allowed root", detail |-> PathTmp]>>

\* spawn's arguments hold the bind mount of an additional mount.
InArgs(mount) ==
  \E n \in 2..Len(spawnArgs.args) :
    <<spawnArgs.args[n - 1], spawnArgs.args[n]>> = MountArg(mount)

\* C38: every additional bind mount among the arguments runContainerAgent hands
\* to the container runtime is one the mount validator accepts under the host's
\* allowlist: a mount of the group that the validator rejects is not among them.
C38_ArgsOnlyValidatedMounts ==
  spawnArgs.built =>
    \A k \in 1..Len(spawnArgs.additionalMounts) :
      LET m == spawnArgs.additionalMounts[k] IN
      ~validateAdditionalMounts(<<Mount(m.hostPath, m.containerPath)>>, FALSE,
                                spawnArgs.file).valid
        => ~InArgs(m)

\* ------------------------------------------------------------------------
\* Properties of sendMessage and shutdown
\* ------------------------------------------------------------------------
LastSend == sends[Len(sends)]
FolderOfProc(proc) == containers[ProcIndex(proc)].folder
FilesIn(f) == {inbox[f][k] : k \in 1..Len(inbox[f])} \ {CloseEntry}

\* What C16 says of the calls made so far: a call for a group without a process
\* returned false and wrote no file, any other call returned true and wrote its one
\* file, and the input directories hold no other message file.
C16_SendsOk ==
  /\ \A n \in 1..Len(sends) :
       /\ sends[n].process = "null" \/ sends[n].folder = "null"
            => ~sends[n].ret /\ sends[n].file = 0
       /\ sends[n].process # "null" /\ sends[n].folder # "null"
            => sends[n].ret /\ sends[n].file = n
  /\ \A f \in DOMAIN inbox :
       /\ \A e \in FilesIn(f) : /\ e.file \in 1..Len(sends)
                                /\ sends[e.file].ret
                                /\ sends[e.file].text = e.text
                                /\ sends[e.file].folder = f
                                /\ FolderOf(sends[e.file].jid) = f
       /\ \A j, k \in 1..Len(inbox[f]) : inbox[f][j] = inbox[f][k] => j = k

\* What C16 says of a sendMessage step: one file more in the group's input directory
\* if it returned true and none otherwise; processing, the queues and _activeCount
\* as before (a group created by the call is idle and empty).
C16_StepOk ==
  sends' # sends =>
    LET s == sends'[Len(sends')]
        f == s.folder
    IN /\ activeCount' = activeCount
       /\ items' = items
       /\ Len(groups') >= Len(groups)
       /\ \A k \in 1..Len(groups') :
            IF k <= Len(groups)
            THEN /\ groups'[k].processing = groups[k].processing
                 /\ groups'[k].queue = groups[k].queue
                 /\ groups'[k].process = groups[k].process
            ELSE ~groups'[k].processing /\ groups'[k].queue = <<>>
       /\ IF s.ret
          THEN inbox' = [inbox EXCEPT ![f] = Append(@, InputFile(s.file, s.text))]
          ELSE inbox' = inbox

\* C16: sendMessage returns false and writes nothing for a group with no registered
\* active process, otherwise publishes exactly one file into the group's input
\* directory and returns true; it never changes processing, the queue or _activeCount.
C16_SendMessage == [](C16_SendsOk) /\ [][C16_StepOk]_vars

\* C16's case: sendMessage returned false for a group whose process was registered
\* and whose slot has been released since.
C16_Witness ==
  /\ sends # <<>>
  /\ ~LastSend.ret
  /\ LastSend.process = "null"
  /\ LastSend.folder # "null"

\* C17: sendMessage returns true only for a message that is delivered: not for a
\* process whose container has exited and whose run has ended, and a container
\* that exits on _close leaves no message behind that was published before _close.
C17_TrueMeansDelivered ==
  /\ \A n \in 1..Len(sends) : sends[n].ret => ~sends[n].stale
  /\ \A c \in 1..Len(containers) : containers[c].reason = "close" => containers[c].left = <<>>

\* What C18 says of the kills: none before shutdown's second loop, and then every
\* process handle still set, also after a kill that threw.
C18_KillsOk ==
  /\ shut.phase # "returned" => shut.killed = {} /\ shut.threw = {}
  /\ shut.phase = "returned" => shut.killed = shut.handlesAtKill /\ shut.threw \subseteq shut.killed

\* What C18 says of shutdown's first loop: _close is in the input directory of every
\* group holding a process handle, and no other input directory is touched.
C18_SignalsOk ==
  shut.phase = "idle" /\ shut'.phase = "waiting" =>
    \A f \in DOMAIN inbox :
      IF \E p \in Handles(groups) : FolderOfProc(p) = f
      THEN inbox'[f] = WithCloseSentinel(inbox[f])
      ELSE inbox'[f] = inbox[f]

\* C18: shutdown writes _close into the input directory of exactly the groups that
\* hold a process handle when it is called, sends no SIGKILL before the grace
\* period is over, and then sends SIGKILL to every process handle still set, also
\* after a kill that threw.
C18_ShutdownSequence == [](C18_KillsOk) /\ [][C18_SignalsOk]_vars

\* C18's case: shutdown has returned, the kill of the first group's process threw,
\* and a later group's process was killed all the same.
C18_Witness ==
  /\ shut.phase = "returned"
  /\ \E j, k \in 1..Len(groups) :
       /\ j < k
       /\ groups[j].process \in shut.threw
       /\ groups[k].process \in shut.killed \ shut.threw

\* C19: once shutdown has returned, every item enqueued so far has been resolved
\* or rejected.
C19_NothingPendingAfterShutdown ==
  shut.phase = "returned" => \A i \in ItemIds : Done(i)

\* A step that starts a processing function: a dispatch by _drain, or a new
\* attempt started by a retry timer.
StartsWork ==
  \/ dispatched' # dispatched
  \/ \E i \in 1..Len(items) : items'[i].calls # items[i].calls

\* C36: once shutdown() has been called no step dispatches a work item or starts
\* a new attempt of one.
C36_NoDispatchAfterShutdown == [][shut.phase # "idle" => ~StartsWork]_vars

\* C37: a container that left its input loop because of the file _close was
\* registered with the queue when that file was written; one spawned afterwards
\* for the same folder does not see it.
C37_CloseEndsOnlyLiveContainer ==
  \A c \in 1..Len(containers) :
    containers[c].reason = "close" =>
      \/ ProcNames[c] \in shut.handlesAtCall
      \/ \E n \in 1..Len(closes) : /\ closes[n].process = ProcNames[c]
                                    /\ closes[n].folder = containers[c].folder

====
